---- MODULE Spec2Model ----
(***************************************************************************)
(* Model of the text-region reconstruction core of media-promo-localizer:  *)
(*   - credits band detector   (app/utils/credits_detection.py)            *)
(*   - credits line grouper    (app/utils/credits_detection.py)            *)
(*   - line reconstructor      (app/clients/ocr_client.py)                 *)
(*   - quad normalisation      (app/clients/ocr_client.py)                 *)
(*                                                                         *)
(* Numbers.  Normalised coordinates are fixed point, one unit = 0.001 of   *)
(* the image side (0.70 is 700).  Areas are in units of 0.000001.  Centres *)
(* are kept doubled (x1 + x2) so that no half is lost.  Angles are whole   *)
(* degrees.  Scores and confidences are exact fractions [num, den].        *)
(* Texts are sequences of one-character strings, and every text test       *)
(* (upper, lower, strip, split, substring) is computed on the characters.  *)
(* A Python None is the empty tuple << >>, a present value v is << v >>.   *)
(***************************************************************************)
EXTENDS Integers, Sequences, FiniteSets, TLC

VARIABLES
    \* detect_credits_band
    line_regions, dpc, band_name, band_bbox_norm, band_regions, p1,
    overlays, residual_regions, regions_sorted, c1, clusters,
    credits_block, detection,
    \* _score_cluster applied to one cluster
    sc_cluster, sc_band, sc_pc, sc_score, sc_stats, sc_block,
    \* group_credits_lines
    g_regions, gpc, credit_lines, over_under_pairs, gp, used_indices, groups,
    \* _group_words_into_lines_rotation_aware
    words, lpc, paragraphs, para, para_sorted, lw, lines, all_line_regions,
    \* _normalize_vertex_order
    vertices, qpc, once, twice,
    \* LiveLocalizationEngine.run
    settings, epc, job, ocr_result, classified_regions, credits_detection,
    translated_regions, localizable_regions, calls, raised,
    \* JobStore
    _jobs, now, prev_jobs, last_op

detVars   == <<line_regions, dpc, band_name, band_bbox_norm, band_regions, p1,
               overlays, residual_regions, regions_sorted, c1, clusters,
               credits_block, detection>>
scoreVars == <<sc_cluster, sc_band, sc_pc, sc_score, sc_stats, sc_block>>
grpVars   == <<g_regions, gpc, credit_lines, over_under_pairs, gp, used_indices, groups>>
lineVars  == <<words, lpc, paragraphs, para, para_sorted, lw, lines, all_line_regions>>
quadVars  == <<vertices, qpc, once, twice>>
engVars   == <<settings, epc, job, ocr_result, classified_regions, credits_detection,
               translated_regions, localizable_regions, calls, raised>>
storeVars == <<_jobs, now, prev_jobs, last_op>>
vars      == <<detVars, scoreVars, grpVars, lineVars, quadVars, engVars, storeVars>>

----------------------------------------------------------------------------
\* Generic helpers

Min2(a, b) == IF a <= b THEN a ELSE b
Max2(a, b) == IF a >= b THEN a ELSE b
Abs(a)     == IF a < 0 THEN -a ELSE a

RECURSIVE SumSeq(_)
SumSeq(s) == IF s = << >> THEN 0 ELSE Head(s) + SumSeq(Tail(s))

RECURSIVE MinSeq(_)
MinSeq(s) == IF Len(s) = 1 THEN s[1] ELSE Min2(s[1], MinSeq(Tail(s)))

RECURSIVE MaxSeq(_)
MaxSeq(s) == IF Len(s) = 1 THEN s[1] ELSE Max2(s[1], MaxSeq(Tail(s)))

\* sequences over S of length 0..n
SeqsUpTo(S, n) == UNION { [1..m -> S] : m \in 0..n }

\* Python's sorted(items, key=...): a stable sort.  A key is a tuple of
\* integers compared lexicographically; keyed items are records [k, v].
RECURSIVE KeyLess(_, _)
KeyLess(a, b) ==
    IF a = << >> THEN FALSE
    ELSE IF a[1] # b[1] THEN a[1] < b[1]
    ELSE KeyLess(Tail(a), Tail(b))

\* x goes after every element whose key is not greater (stability)
RECURSIVE InsertKeyed(_, _)
InsertKeyed(x, s) ==
    IF s = << >> THEN << x >>
    ELSE IF KeyLess(x.k, s[1].k) THEN << x >> \o s
    ELSE << s[1] >> \o InsertKeyed(x, Tail(s))

RECURSIVE SortKeyed(_)
SortKeyed(s) ==
    IF s = << >> THEN << >>
    ELSE InsertKeyed(s[Len(s)], SortKeyed(SubSeq(s, 1, Len(s) - 1)))

\* sorted(items, key): keys[n] is the key of items[n]
SortedByKey(items, keys) ==
    LET keyed  == [n \in 1..Len(items) |-> [k |-> keys[n], v |-> items[n]]]
        sorted == SortKeyed(keyed)
    IN  [n \in 1..Len(items) |-> sorted[n].v]

SortedInts(s) == SortedByKey(s, [n \in 1..Len(s) |-> << s[n] >>])

----------------------------------------------------------------------------
\* Text helpers (str.upper, str.lower, `in`, str.strip, str.split, str.isupper)

LowerLetters == <<"a","b","c","d","e","f","g","h","i","j","k","l","m",
                  "n","o","p","q","r","s","t","u","v","w","x","y","z">>
UpperLetters == <<"A","B","C","D","E","F","G","H","I","J","K","L","M",
                  "N","O","P","Q","R","S","T","U","V","W","X","Y","Z">>

IsLowerChar(ch) == \E n \in 1..26 : LowerLetters[n] = ch
IsUpperChar(ch) == \E n \in 1..26 : UpperLetters[n] = ch
UpperChar(ch) == IF IsLowerChar(ch)
                 THEN UpperLetters[CHOOSE n \in 1..26 : LowerLetters[n] = ch] ELSE ch
LowerChar(ch) == IF IsUpperChar(ch)
                 THEN LowerLetters[CHOOSE n \in 1..26 : UpperLetters[n] = ch] ELSE ch

StrUpper(t) == SubSeq([n \in 1..Len(t) |-> UpperChar(t[n])], 1, Len(t))
StrLower(t) == SubSeq([n \in 1..Len(t) |-> LowerChar(t[n])], 1, Len(t))

\* token in text
Contains(token, t) ==
    \E n \in 0..(Len(t) - Len(token)) : SubSeq(t, n + 1, n + Len(token)) = token

ContainsAny(tokens, t) == \E n \in 1..Len(tokens) : Contains(tokens[n], t)

IsSpace(ch) == ch = " "

RECURSIVE LStrip(_)
LStrip(t) == IF t # << >> /\ IsSpace(t[1]) THEN LStrip(Tail(t)) ELSE t

RECURSIVE RStrip(_)
RStrip(t) == IF t # << >> /\ IsSpace(t[Len(t)])
             THEN RStrip(SubSeq(t, 1, Len(t) - 1)) ELSE t

StrStrip(t) == RStrip(LStrip(t))

\* str.isupper(): at least one cased character and no lowercase one
StrIsUpper(t) == /\ \E n \in 1..Len(t) : IsUpperChar(t[n])
                 /\ \A n \in 1..Len(t) : ~IsLowerChar(t[n])

\* str.split(): the maximal runs of non-space characters
RECURSIVE SplitFrom(_, _)
SplitFrom(t, cur) ==
    IF t = << >> THEN (IF cur = << >> THEN << >> ELSE << cur >>)
    ELSE IF IsSpace(t[1])
         THEN (IF cur = << >> THEN << >> ELSE << cur >>) \o SplitFrom(Tail(t), << >>)
         ELSE SplitFrom(Tail(t), Append(cur, t[1]))

StrSplit(t) == SplitFrom(t, << >>)

----------------------------------------------------------------------------
\* credits_config.py (coordinates in units of 0.001, areas in 0.000001)

BOTTOM_BAND_Y_MIN == 700
BOTTOM_BAND_Y_MAX == 1000
TOP_LITE_BAND_Y_MIN == 0
TOP_LITE_BAND_Y_MAX == 250
OVERLAY_AREA_SMALL == 2000
OVERLAY_HEIGHT_TINY == 30
\* OVERLAY_ASPECT_WIDE = 3.5 = 7 / 2
OVERLAY_ASPECT_WIDE_NUM == 7
OVERLAY_ASPECT_WIDE_DEN == 2
CREDITS_LINE_COUNT_MIN == 8
CREDITS_FONT_HEIGHT_MAX == 30
CREDITS_ANGLE_STD_MAX == 8
OVER_UNDER_MAX_GAP_Y == 12
\* OVER_UNDER_MIN_X_OVERLAP = 0.65 = 65 / 100
OVER_UNDER_MIN_X_OVERLAP_NUM == 65
OVER_UNDER_MIN_X_OVERLAP_DEN == 100

CREDITS_ROLE_ANCHORS == <<
    <<"d","i","r","e","c","t","e","d"," ","b","y">>,
    <<"w","r","i","t","t","e","n"," ","b","y">>,
    <<"s","c","r","e","e","n","p","l","a","y"," ","b","y">>,
    <<"s","t","o","r","y"," ","b","y">>,
    <<"p","r","o","d","u","c","e","d"," ","b","y">>,
    <<"e","x","e","c","u","t","i","v","e"," ","p","r","o","d","u","c","e","r">>,
    <<"e","x","e","c","u","t","i","v","e"," ","p","r","o","d","u","c","e","r","s">>,
    <<"d","i","r","e","c","t","o","r"," ","o","f"," ","p","h","o","t","o","g","r","a","p","h","y">>,
    <<"p","r","o","d","u","c","t","i","o","n"," ","d","e","s","i","g","n","e","r">>,
    <<"m","u","s","i","c"," ","b","y">>,
    <<"e","d","i","t","e","d"," ","b","y">>,
    <<"c","a","s","t","i","n","g"," ","b","y">>,
    <<"b","a","s","e","d"," ","o","n">> ,
    <<"a"," ","f","i","l","m"," ","b","y">> >>

\* token lists of _detect_credits_overlays
URL_TOKENS == <<
    <<".","C","O","M">>, <<".","N","E","T">>, <<".","O","R","G">>, <<".","I","O">>,
    <<"H","T","T","P",":","/","/">>, <<"H","T","T","P","S",":","/","/">>,
    <<"W","W","W",".">> >>

RATING_PATTERNS == <<
    <<"R","A","T","E","D">>, <<"P","G">>, <<"G">>, <<"R">>,
    <<"N","C","-","1","7">>, <<"M","P","A","A">> >>

\* token list of _classify_group
CERTIFICATION_PATTERNS == <<
    <<"A",".","C",".","E",".">>, <<"A","S","C">>,
    <<"A",".","S",".","C",".">>, <<"M","P","A","A">> >>

----------------------------------------------------------------------------
\* credits_geometry.py

Pt(x, y) == [x |-> x, y |-> y]

\* the four corners TL, TR, BR, BL of an axis-aligned box
BoxQuad(x1, y1, x2, y2) == << Pt(x1, y1), Pt(x2, y1), Pt(x2, y2), Pt(x1, y2) >>

bbox_from_quad(quad_norm) ==
    LET xs == [n \in 1..Len(quad_norm) |-> quad_norm[n].x]
        ys == [n \in 1..Len(quad_norm) |-> quad_norm[n].y]
    IN  << MinSeq(xs), MinSeq(ys), MaxSeq(xs), MaxSeq(ys) >>

area_from_bbox(bbox_norm) ==
    IF Len(bbox_norm) < 4 THEN 0
    ELSE (bbox_norm[3] - bbox_norm[1]) * (bbox_norm[4] - bbox_norm[2])

height_from_bbox(bbox_norm) ==
    IF Len(bbox_norm) < 4 THEN 0 ELSE bbox_norm[4] - bbox_norm[2]

\* aspect_ratio_from_bbox(bbox) > num / den, the ratio being 1.0 for a short
\* bbox or a zero height
AspectRatioGreater(bbox_norm, num, den) ==
    IF Len(bbox_norm) < 4 \/ bbox_norm[4] - bbox_norm[2] = 0
    THEN den > num
    ELSE LET width  == bbox_norm[3] - bbox_norm[1]
             height == bbox_norm[4] - bbox_norm[2]
         IN  IF height > 0 THEN width * den > num * height
                           ELSE width * den < num * height

\* A region is a DetectedText: text, boundingBox and the optional _geometry
\* attribute ([quad_norm, center_norm, angle_deg]) the OCR client attaches.
\* The result is << >> (None) or << RegionGeometry >>; center_norm is doubled
\* in the bounding-box fallback, as it is in the attribute.
geometry_from_detected_text(region) ==
    IF /\ region.geometry_attr # << >>
       /\ Len(region.geometry_attr[1].quad_norm) >= 4
    THEN LET g    == region.geometry_attr[1]
             quad == SubSeq(g.quad_norm, 1, 4)
         IN  << [quad_norm   |-> quad,
                 center_norm |-> g.center_norm,
                 angle_deg   |-> g.angle_deg,
                 bbox_norm   |-> bbox_from_quad(quad)] >>
    ELSE IF Len(region.boundingBox) >= 4
    THEN LET x1 == region.boundingBox[1]
             y1 == region.boundingBox[2]
             x2 == region.boundingBox[3]
             y2 == region.boundingBox[4]
         IN  << [quad_norm   |-> BoxQuad(x1, y1, x2, y2),
                 center_norm |-> Pt(x1 + x2, y1 + y2),
                 angle_deg   |-> 0,
                 bbox_norm   |-> << x1, y1, x2, y2 >>] >>
    ELSE << >>

font_height_from_geometry(geometry) == height_from_bbox(geometry.bbox_norm)

\* PointNorm: x and y are validated ge=0.0, le=1.0 (pydantic raises otherwise);
\* d is 1 for a point, 2 for a doubled centre
PointNormRaises(p, d) == p.x < 0 \/ p.x > 1000 * d \/ p.y < 0 \/ p.y > 1000 * d

\* geometry_from_detected_text raises: some PointNorm it constructs is
\* rejected by the validation
GeometryRaises(region) ==
    IF /\ region.geometry_attr # << >>
       /\ Len(region.geometry_attr[1].quad_norm) >= 4
    THEN LET g == region.geometry_attr[1]
         IN  \/ \E n \in 1..4 : PointNormRaises(g.quad_norm[n], 1)
             \/ PointNormRaises(g.center_norm, 2)
    ELSE IF Len(region.boundingBox) >= 4
    THEN LET x1 == region.boundingBox[1]
             y1 == region.boundingBox[2]
             x2 == region.boundingBox[3]
             y2 == region.boundingBox[4]
         IN  \/ \E n \in 1..4 : PointNormRaises(BoxQuad(x1, y1, x2, y2)[n], 1)
             \/ PointNormRaises(Pt(x1 + x2, y1 + y2), 2)
    ELSE FALSE

----------------------------------------------------------------------------
\* detect_credits_band: band selection (Stage A)

HasBBox(r) == Len(r.boundingBox) >= 4

\* mutant of InBottomBand: the lower edge of the band is excluded
InBottomBand_StrictMin(r) ==
    /\ Len(r.boundingBox) >= 4
    /\ BOTTOM_BAND_Y_MIN < r.boundingBox[2]
    /\ r.boundingBox[2] <= BOTTOM_BAND_Y_MAX

InBottomBand(r) ==
    /\ HasBBox(r)
    /\ BOTTOM_BAND_Y_MIN <= r.boundingBox[2]
    /\ r.boundingBox[2] <= BOTTOM_BAND_Y_MAX

InTopLiteBand(r) ==
    /\ HasBBox(r)
    /\ TOP_LITE_BAND_Y_MIN <= r.boundingBox[2]
    /\ r.boundingBox[2] <= TOP_LITE_BAND_Y_MAX

\* [r for r in regions if Keep(r)] for the two band filters
RECURSIVE FilterBottom(_)
FilterBottom(rs) ==
    IF rs = << >> THEN << >>
    ELSE (IF InBottomBand(rs[1]) THEN << rs[1] >> ELSE << >>) \o FilterBottom(Tail(rs))

RECURSIVE FilterTop(_)
FilterTop(rs) ==
    IF rs = << >> THEN << >>
    ELSE (IF InTopLiteBand(rs[1]) THEN << rs[1] >> ELSE << >>) \o FilterTop(Tail(rs))

BOTTOM_BBOX == << 0, BOTTOM_BAND_Y_MIN, 1000, BOTTOM_BAND_Y_MAX >>
TOP_LITE_BBOX == << 0, TOP_LITE_BAND_Y_MIN, 1000, TOP_LITE_BAND_Y_MAX >>

_select_candidate_band(regions) ==
    LET bottom_regions == FilterBottom(regions)
        top_regions    == FilterTop(regions)
    IN  IF bottom_regions # << >>
        THEN [name |-> "BOTTOM_BAND", bbox |-> BOTTOM_BBOX, regions |-> bottom_regions]
        ELSE IF top_regions # << >>
        THEN [name |-> "TOP_LITE_BAND", bbox |-> TOP_LITE_BBOX, regions |-> top_regions]
        ELSE [name |-> "BOTTOM_BAND", bbox |-> BOTTOM_BBOX, regions |-> << >>]

----------------------------------------------------------------------------
\* _detect_credits_overlays (Pass 1)

\* B1: URL / social signature, from the text alone; "" is None
TextOverlayType(text) ==
    IF Contains(<<"@">>, text) THEN "SOCIAL_HANDLE"
    ELSE IF ContainsAny(URL_TOKENS, StrUpper(text)) THEN "URL"
    ELSE ""

\* mutant of GeometryOverlayType: the rating patterns are not looked for
GeometryOverlayType_NoRating(text, geometry) ==
    LET area_norm   == area_from_bbox(geometry.bbox_norm)
        height_norm == height_from_bbox(geometry.bbox_norm)
        wide        == AspectRatioGreater(geometry.bbox_norm,
                           OVERLAY_ASPECT_WIDE_NUM, OVERLAY_ASPECT_WIDE_DEN)
    IN  IF area_norm < OVERLAY_AREA_SMALL THEN "LOGO"
        ELSE IF height_norm < OVERLAY_HEIGHT_TINY /\ wide THEN "UNKNOWN"
        ELSE ""

\* B2: badge / logo geometry, then the rating patterns; "" is None
GeometryOverlayType(text, geometry) ==
    LET area_norm   == area_from_bbox(geometry.bbox_norm)
        height_norm == height_from_bbox(geometry.bbox_norm)
        wide        == AspectRatioGreater(geometry.bbox_norm,
                           OVERLAY_ASPECT_WIDE_NUM, OVERLAY_ASPECT_WIDE_DEN)
        shape       == IF area_norm < OVERLAY_AREA_SMALL THEN "LOGO"
                       ELSE IF height_norm < OVERLAY_HEIGHT_TINY /\ wide THEN "UNKNOWN"
                       ELSE ""
    IN  IF shape # "" THEN shape
        ELSE IF ContainsAny(RATING_PATTERNS, StrUpper(text)) THEN "RATING_BADGE"
        ELSE ""

\* mutant of OverlayTypeOf: the geometry rules are tried before the text rules
OverlayTypeOf_GeometryFirst(text, geometry) ==
    LET area_norm   == area_from_bbox(geometry.bbox_norm)
        height_norm == height_from_bbox(geometry.bbox_norm)
        wide        == AspectRatioGreater(geometry.bbox_norm,
                           OVERLAY_ASPECT_WIDE_NUM, OVERLAY_ASPECT_WIDE_DEN)
    IN  IF area_norm < OVERLAY_AREA_SMALL THEN "LOGO"
        ELSE IF height_norm < OVERLAY_HEIGHT_TINY /\ wide THEN "UNKNOWN"
        ELSE IF Contains(<<"@">>, text) THEN "SOCIAL_HANDLE"
        ELSE IF ContainsAny(URL_TOKENS, StrUpper(text)) THEN "URL"
        ELSE IF ContainsAny(RATING_PATTERNS, StrUpper(text)) THEN "RATING_BADGE"
        ELSE ""

\* overlay_type of a region that has geometry
OverlayTypeOf(text, geometry) ==
    LET b1 == TextOverlayType(text)
    IN  IF b1 # "" THEN b1
        ELSE IF geometry.bbox_norm # << >> THEN GeometryOverlayType(text, geometry)
        ELSE ""

CreditsOverlayElement(overlay_type, text, geometry) ==
    [element_type |-> overlay_type,
     text         |-> IF text # << >> THEN << text >> ELSE << >>,
     geometry     |-> geometry,
     locked       |-> TRUE]

\* mutant of Pass1Place: a region without geometry is skipped, not kept
Pass1Place_SkipNoGeometry(ovs, res, region) ==
    LET geometry == geometry_from_detected_text(region)
    IN  IF geometry = << >>
        THEN [overlays |-> ovs, residual |-> res]
        ELSE LET overlay_type == OverlayTypeOf(region.text, geometry[1])
             IN  IF overlay_type # ""
                 THEN [overlays |-> Append(ovs, CreditsOverlayElement(
                                       overlay_type, region.text, geometry[1])),
                       residual |-> res]
                 ELSE [overlays |-> ovs, residual |-> Append(res, region)]

\* one iteration of the loop over band_regions: the new (overlays, residual)
Pass1Place(ovs, res, region) ==
    LET geometry == geometry_from_detected_text(region)
    IN  IF geometry = << >>
        THEN [overlays |-> ovs, residual |-> Append(res, region)]
        ELSE LET overlay_type == OverlayTypeOf(region.text, geometry[1])
             IN  IF overlay_type # ""
                 THEN [overlays |-> Append(ovs, CreditsOverlayElement(
                                       overlay_type, region.text, geometry[1])),
                       residual |-> res]
                 ELSE [overlays |-> ovs, residual |-> Append(res, region)]


----------------------------------------------------------------------------
\* _cluster_regions (Pass 2, clustering)

dy_threshold == 20

\* sorted(regions, key=(y1, x1)); a region without a 4-value bbox sorts as (1.0, 0.0)
SortRegionsByYX(regions) ==
    SortedByKey(regions,
        [n \in 1..Len(regions) |->
            IF HasBBox(regions[n])
            THEN << regions[n].boundingBox[2], regions[n].boundingBox[1] >>
            ELSE << 1000, 0 >>])

\* the test of one cluster against a region: y adjacency to the member mean,
\* then x overlap ratio > 0.2
ClusterAccepts(cluster, region) ==
    LET ys   == [n \in 1..Len(cluster) |-> cluster[n].boundingBox[2]]
        x1s  == [n \in 1..Len(cluster) |-> cluster[n].boundingBox[1]]
        x2s  == [n \in 1..Len(cluster) |-> cluster[n].boundingBox[3]]
        region_y  == region.boundingBox[2]
        region_x1 == region.boundingBox[1]
        region_x2 == region.boundingBox[3]
        cluster_x_min == MinSeq(x1s)
        cluster_x_max == MaxSeq(x2s)
        inter == Min2(region_x2, cluster_x_max) - Max2(region_x1, cluster_x_min)
        denom == Max2(Max2(region_x2 - region_x1, cluster_x_max - cluster_x_min), 1)
    IN  \* abs(region_y - avg_cluster_y) <= dy_threshold
        /\ Abs(region_y * Len(cluster) - SumSeq(ys)) <= dy_threshold * Len(cluster)
        \* max(0.0, inter / denom) > 0.2
        /\ 5 * inter > denom

\* mutant of FirstAccepting: the last cluster that accepts the region
FirstAccepting_Last(cls, region) ==
    IF \E n \in 1..Len(cls) : ClusterAccepts(cls[n], region)
    THEN CHOOSE n \in 1..Len(cls) :
            /\ ClusterAccepts(cls[n], region)
            /\ \A m \in (n + 1)..Len(cls) : ~ClusterAccepts(cls[m], region)
    ELSE 0

\* index of the first cluster that accepts the region, 0 if none
FirstAccepting(cls, region) ==
    IF \E n \in 1..Len(cls) : ClusterAccepts(cls[n], region)
    THEN CHOOSE n \in 1..Len(cls) :
            /\ ClusterAccepts(cls[n], region)
            /\ \A m \in 1..(n - 1) : ~ClusterAccepts(cls[m], region)
    ELSE 0

\* one iteration of the loop over regions_sorted
ClusterPlace(cls, region) ==
    IF ~HasBBox(region) THEN cls
    ELSE LET n == FirstAccepting(cls, region)
         IN  IF n = 0 THEN Append(cls, << region >>)
             ELSE [cls EXCEPT ![n] = Append(@, region)]

----------------------------------------------------------------------------
\* _score_cluster (Pass 2, scoring)

Frac(num, den) == [num |-> num, den |-> den]
FracGeq(a, b) == a.num * b.den >= b.num * a.den
FracLess(a, b) == a.num * b.den < b.num * a.den
FracEq(a, b) == a.num * b.den = b.num * a.den

\* twice statistics.median(xs), xs not empty
Median2(xs) ==
    LET s == SortedInts(xs)
        n == Len(s)
    IN  IF n % 2 = 1 THEN 2 * s[(n + 1) \div 2]
        ELSE s[n \div 2] + s[(n \div 2) + 1]

SumSquares(xs) == SumSeq([n \in 1..Len(xs) |-> xs[n] * xs[n]])

\* mutant of StdevAtMost: the population deviation (divide by n) is used
StdevAtMost_Population(angles, limit) ==
    LET n == Len(angles)
    IN  IF n <= 1 THEN 0 <= limit
        ELSE n * SumSquares(angles) - SumSeq(angles) * SumSeq(angles)
                 <= limit * limit * n * n

\* statistics.stdev(angles) <= limit, the deviation being 0.0 for fewer than
\* two angles: the sample variance sum((a - mean)^2) / (n - 1) <= limit^2
StdevAtMost(angles, limit) ==
    LET n == Len(angles)
    IN  IF n <= 1 THEN 0 <= limit
        ELSE n * SumSquares(angles) - SumSeq(angles) * SumSeq(angles)
                 <= limit * limit * n * (n - 1)

RECURSIVE GeometriesOf(_)
GeometriesOf(cluster) ==
    IF cluster = << >> THEN << >>
    ELSE geometry_from_detected_text(cluster[1]) \o GeometriesOf(Tail(cluster))

RECURSIVE BBoxesOf(_)
BBoxesOf(cluster) ==
    IF cluster = << >> THEN << >>
    ELSE (IF HasBBox(cluster[1]) THEN << cluster[1].boundingBox >> ELSE << >>)
         \o BBoxesOf(Tail(cluster))

HasAnchor(text) == ContainsAny(CREDITS_ROLE_ANCHORS, StrLower(text))

RECURSIVE CountAnchors(_)
CountAnchors(cluster) ==
    IF cluster = << >> THEN 0
    ELSE (IF HasAnchor(cluster[1].text) THEN 1 ELSE 0) + CountAnchors(Tail(cluster))

\* the two score components that are 0.5 each count 1, the three that are
\* 1.0 each count 2; score = halves / 2 + lex_boost
_score_cluster(cluster, band_bbox) ==
    IF cluster = << >> \/ BBoxesOf(cluster) = << >>
    THEN [score |-> Frac(0, 1), stats |-> << >>]
    ELSE
    LET line_count   == Len(cluster)
        geoms        == GeometriesOf(cluster)
        font_heights == [n \in 1..Len(geoms) |-> font_height_from_geometry(geoms[n])]
        angles       == [n \in 1..Len(geoms) |-> geoms[n].angle_deg]
        \* median_font_height (doubled), 0.1 when no region has geometry
        median2      == IF font_heights # << >> THEN Median2(font_heights) ELSE 200
        angle_mean   == IF angles # << >> THEN Frac(SumSeq(angles), Len(angles))
                        ELSE Frac(0, 1)
        boxes        == BBoxesOf(cluster)
        cluster_bbox == << MinSeq([n \in 1..Len(boxes) |-> Min2(boxes[n][1], boxes[n][3])]),
                           MinSeq([n \in 1..Len(boxes) |-> Min2(boxes[n][2], boxes[n][4])]),
                           MaxSeq([n \in 1..Len(boxes) |-> Max2(boxes[n][1], boxes[n][3])]),
                           MaxSeq([n \in 1..Len(boxes) |-> Max2(boxes[n][2], boxes[n][4])]) >>
        cluster_height == cluster_bbox[4] - cluster_bbox[2]
        \* density = line_count / max(cluster_height, 0.001) > 10.0
        dense        == line_count * 1000 > 10 * Max2(cluster_height, 1)
        matching     == CountAnchors(cluster)
        s1 == IF line_count >= CREDITS_LINE_COUNT_MIN THEN 2 ELSE 0
        s2 == IF median2 <= 2 * CREDITS_FONT_HEIGHT_MAX THEN 2 ELSE 0
        s3 == IF dense THEN 2 ELSE 0
        \* cluster_center_y > band_center_y
        s4 == IF cluster_bbox[2] + cluster_bbox[4] > band_bbox[2] + band_bbox[4]
              THEN 1 ELSE 0
        s5 == IF StdevAtMost(angles, CREDITS_ANGLE_STD_MAX) THEN 1 ELSE 0
        halves == s1 + s2 + s3 + s4 + s5
    IN  [score |-> Frac(halves * line_count + 2 * matching, 2 * line_count),
         stats |-> << [line_count |-> line_count,
                       median_font_height2 |-> median2,
                       angle_mean |-> angle_mean,
                       angle_std_ok |-> StdevAtMost(angles, CREDITS_ANGLE_STD_MAX),
                       dense |-> dense,
                       lex_boost |-> Frac(matching, line_count),
                       bbox_norm |-> cluster_bbox] >>]

----------------------------------------------------------------------------
\* _detect_credits_block (Pass 2, selection)

min_acceptance_threshold == Frac(2, 1)

\* mutant of BestIndex: the scored clusters are not sorted, the first is taken
BestIndex_Unsorted(scores) == 1

\* scored_clusters.sort(key=score, reverse=True)[0]: the sort is stable, so
\* the winner is the first cluster (in creation order) of maximal score
BestIndex(scores) ==
    CHOOSE n \in 1..Len(scores) :
        /\ \A m \in 1..Len(scores) : FracGeq(scores[n], scores[m])
        /\ \A m \in 1..(n - 1) : FracLess(scores[m], scores[n])

\* min(1.0, best_score / 5.0)
Confidence(score) ==
    IF score.num >= 5 * score.den THEN Frac(1, 1) ELSE Frac(score.num, 5 * score.den)

_compute_oriented_bbox_for_cluster(cluster) ==
    LET geoms == GeometriesOf(cluster)
        pts   == [n \in 1..(4 * Len(geoms)) |->
                     geoms[((n - 1) \div 4) + 1].quad_norm[((n - 1) % 4) + 1]]
    IN  IF pts = << >> THEN << 0, 0, 1000, 1000 >> ELSE bbox_from_quad(pts)

\* the value returned for a non-empty list of clusters: << >> or << CreditsBlock >>
SelectBlock(cls, band_bbox) ==
    LET scored == [n \in 1..Len(cls) |-> _score_cluster(cls[n], band_bbox)]
        scores == [n \in 1..Len(cls) |-> scored[n].score]
        best   == BestIndex(scores)
        best_score == scores[best]
    IN  IF FracLess(best_score, min_acceptance_threshold) THEN << >>
        ELSE LET dominant_angle == scored[best].stats[1].angle_mean
                 bbox_norm == _compute_oriented_bbox_for_cluster(cls[best])
             IN  << [geometry |->
                        [quad_norm   |-> BoxQuad(bbox_norm[1], bbox_norm[2],
                                                 bbox_norm[3], bbox_norm[4]),
                         center_norm |-> Pt(bbox_norm[1] + bbox_norm[3],
                                            bbox_norm[2] + bbox_norm[4]),
                         angle_deg   |-> dominant_angle,
                         bbox_norm   |-> bbox_norm],
                     dominant_angle_deg |-> dominant_angle,
                     credit_groups |-> << >>,
                     confidence |-> Confidence(best_score)] >>

_detect_credits_block(cls, band_bbox) ==
    IF cls = << >> THEN << >> ELSE SelectBlock(cls, band_bbox)


----------------------------------------------------------------------------
\* Inputs of the detector: line regions as the OCR client or a caller builds
\* them

T_HANDLE == <<"@","s","t","u","d","i","o","f","i","l","m","s">>
T_HANDLE_URL == <<"@","x",".","c","o","m">>
T_URL == <<"w","w","w",".","f","i","l","m",".","c","o","m">>
T_PG == <<"P","G">>
T_CREDIT == <<"D","i","r","e","c","t","e","d"," ","b","y"," ","J","a","n","e"," ","D","o","e">>
T_YEAR == <<"2","0","2","4">>
T_MUSIC == <<"m","u","s","i","c"," ","b","y"," ","x">>

\* a DetectedText as ocr_client.py builds it: the _geometry attribute holds
\* the bbox corners, the (doubled) bbox centre and the line angle
OcrRegion(text, bbox, angle) ==
    [text |-> text, boundingBox |-> bbox,
     geometry_attr |-> << [quad_norm   |-> BoxQuad(bbox[1], bbox[2], bbox[3], bbox[4]),
                           center_norm |-> Pt(bbox[1] + bbox[3], bbox[2] + bbox[4]),
                           angle_deg   |-> angle] >>]

\* a DetectedText built without the attribute (DetectedText(text=, boundingBox=, role=))
PlainRegion(text, bbox) == [text |-> text, boundingBox |-> bbox, geometry_attr |-> << >>]

B_LARGE    == << 100, 730, 900, 760 >>
B_LARGE2   == << 100, 740, 900, 770 >>
B_SMALL    == << 100, 800, 140, 820 >>
B_TINYWIDE == << 100, 900, 900, 920 >>
B_TALL     == << 100, 700, 900, 900 >>
B_LOW      == << 100, 900, 900, 940 >>
B_TOP      == << 100, 50, 900, 80 >>
B_TOPEDGE  == << 100, 250, 900, 280 >>
B_MID      == << 100, 500, 900, 530 >>

R_HANDLE_SMALL == PlainRegion(T_HANDLE, B_SMALL)
R_HANDLE_URL   == OcrRegion(T_HANDLE_URL, B_LARGE, 0)
R_URL_SMALL    == PlainRegion(T_URL, B_SMALL)
R_PG           == PlainRegion(T_PG, B_LARGE)
R_CREDIT       == OcrRegion(T_CREDIT, B_LARGE, 0)
R_YEAR         == PlainRegion(T_YEAR, B_LARGE)
R_MUSIC        == OcrRegion(T_MUSIC, B_LARGE2, 20)
R_YEAR_TALL    == PlainRegion(T_YEAR, B_TALL)
R_YEAR_LOW     == PlainRegion(T_YEAR, B_LOW)
R_YEAR_SMALL   == PlainRegion(T_YEAR, B_SMALL)
R_YEAR_TINY    == PlainRegion(T_YEAR, B_TINYWIDE)
R_YEAR_TOP     == OcrRegion(T_YEAR, B_TOP, 0)
R_URL_TOPEDGE  == PlainRegion(T_URL, B_TOPEDGE)
R_YEAR_MID     == PlainRegion(T_YEAR, B_MID)
\* a region with a short boundingBox and no attribute: no geometry
R_NOBOX        == PlainRegion(T_HANDLE, << >>)

DetectPool == { R_HANDLE_SMALL, R_HANDLE_URL, R_URL_SMALL, R_PG, R_CREDIT, R_YEAR,
                R_MUSIC, R_YEAR_TALL, R_YEAR_LOW, R_YEAR_SMALL, R_YEAR_TINY,
                R_YEAR_TOP, R_URL_TOPEDGE, R_YEAR_MID, R_NOBOX }

\* longest list of line regions handed to the detector
MaxRegions == 3

----------------------------------------------------------------------------
\* Idle values of the components a specification does not run

DetIdle ==
    /\ line_regions = << >> /\ dpc = "idle" /\ band_name = "" /\ band_bbox_norm = << >>
    /\ band_regions = << >> /\ p1 = 0 /\ overlays = << >> /\ residual_regions = << >>
    /\ regions_sorted = << >> /\ c1 = 0 /\ clusters = << >>
    /\ credits_block = << >> /\ detection = << >>

ScoreIdle ==
    /\ sc_cluster = << >> /\ sc_band = << >> /\ sc_pc = "idle"
    /\ sc_score = Frac(0, 1) /\ sc_stats = << >> /\ sc_block = << >>

GrpIdle ==
    /\ g_regions = << >> /\ gpc = "idle" /\ credit_lines = << >>
    /\ over_under_pairs = << >> /\ gp = 0 /\ used_indices = {} /\ groups = << >>

LineIdle ==
    /\ words = << >> /\ lpc = "idle" /\ paragraphs = << >> /\ para = 0
    /\ para_sorted = << >> /\ lw = 0 /\ lines = << >> /\ all_line_regions = << >>

QuadIdle ==
    /\ vertices = << >> /\ qpc = "idle" /\ once = << >> /\ twice = << >>

EngIdle ==
    /\ settings = << >> /\ epc = "idle" /\ job = << >> /\ ocr_result = << >>
    /\ classified_regions = << >> /\ credits_detection = << >>
    /\ translated_regions = << >> /\ localizable_regions = << >>
    /\ calls = << >> /\ raised = {}

StoreIdle ==
    /\ _jobs = << >> /\ now = 0 /\ prev_jobs = << >> /\ last_op = << >>

----------------------------------------------------------------------------
\* detect_credits_band as a state machine

\* Step A.  No candidate: return None.
DetectSelectBand ==
    /\ dpc = "select"
    /\ LET band == _select_candidate_band(line_regions)
       IN  /\ band_name' = band.name
           /\ band_bbox_norm' = band.bbox
           /\ band_regions' = band.regions
           /\ IF band.regions = << >>
              THEN dpc' = "done" /\ p1' = p1
              ELSE dpc' = "pass1" /\ p1' = 1
    /\ UNCHANGED <<line_regions, overlays, residual_regions, regions_sorted, c1,
                   clusters, credits_block, detection>>
    /\ UNCHANGED <<scoreVars, grpVars, lineVars, quadVars, engVars, storeVars>>

\* Step B, one iteration of `for region in band_regions`
\* (an exception of geometry_from_detected_text leaves the function: nothing
\* in detect_credits_band catches it)
Pass1Step ==
    /\ dpc = "pass1"
    /\ p1 <= Len(band_regions)
    /\ IF GeometryRaises(band_regions[p1])
       THEN /\ dpc' = "raised"
            /\ UNCHANGED <<overlays, residual_regions, p1>>
       ELSE /\ LET placed == Pass1Place(overlays, residual_regions, band_regions[p1])
               IN  /\ overlays' = placed.overlays
                   /\ residual_regions' = placed.residual
            /\ p1' = p1 + 1
            /\ dpc' = dpc
    /\ UNCHANGED <<line_regions, band_name, band_bbox_norm, band_regions,
                   regions_sorted, c1, clusters, credits_block, detection>>
    /\ UNCHANGED <<scoreVars, grpVars, lineVars, quadVars, engVars, storeVars>>

\* mutant of CreditsBandDetection: the overlays are left out
CreditsBandDetection_NoOverlays(block) ==
    [band_name |-> band_name, band_bbox_norm |-> band_bbox_norm,
     overlays |-> << >>, credits_block |-> block,
     confidence |-> IF block # << >> THEN block[1].confidence ELSE Frac(0, 1)]

\* the detection returned by detect_credits_band
CreditsBandDetection(block) ==
    [band_name |-> band_name, band_bbox_norm |-> band_bbox_norm,
     overlays |-> overlays, credits_block |-> block,
     confidence |-> IF block # << >> THEN block[1].confidence ELSE Frac(0, 1)]

\* Step C entry: Pass 2 runs only if a residual region exists; otherwise the
\* detection is built at once with credits_block = None
DetectAfterPass1 ==
    /\ dpc = "pass1"
    /\ p1 > Len(band_regions)
    /\ IF residual_regions # << >>
       THEN /\ regions_sorted' = SortRegionsByYX(residual_regions)
            /\ c1' = 1
            /\ dpc' = "cluster"
            /\ UNCHANGED <<credits_block, detection>>
       ELSE /\ credits_block' = << >>
            /\ detection' = << CreditsBandDetection(<< >>) >>
            /\ dpc' = "done"
            /\ UNCHANGED <<regions_sorted, c1>>
    /\ UNCHANGED <<line_regions, band_name, band_bbox_norm, band_regions, p1,
                   overlays, residual_regions, clusters>>
    /\ UNCHANGED <<scoreVars, grpVars, lineVars, quadVars, engVars, storeVars>>

\* _cluster_regions, one iteration of `for region in regions_sorted`
ClusterStep ==
    /\ dpc = "cluster"
    /\ c1 <= Len(regions_sorted)
    /\ clusters' = ClusterPlace(clusters, regions_sorted[c1])
    /\ c1' = c1 + 1
    /\ UNCHANGED <<line_regions, dpc, band_name, band_bbox_norm, band_regions, p1,
                   overlays, residual_regions, regions_sorted, credits_block, detection>>
    /\ UNCHANGED <<scoreVars, grpVars, lineVars, quadVars, engVars, storeVars>>

\* the rest of _detect_credits_block (score, sort, select) and the return of
\* detect_credits_band
ScoreAndSelect ==
    /\ dpc = "cluster"
    /\ c1 > Len(regions_sorted)
    /\ LET block == _detect_credits_block(clusters, band_bbox_norm)
       IN  /\ credits_block' = block
           /\ detection' = << CreditsBandDetection(block) >>
    /\ dpc' = "done"
    /\ UNCHANGED <<line_regions, band_name, band_bbox_norm, band_regions, p1,
                   overlays, residual_regions, regions_sorted, c1, clusters>>
    /\ UNCHANGED <<scoreVars, grpVars, lineVars, quadVars, engVars, storeVars>>

DetInit ==
    /\ line_regions \in SeqsUpTo(DetectPool, MaxRegions)
    /\ dpc = "select"
    /\ band_name = "" /\ band_bbox_norm = << >> /\ band_regions = << >> /\ p1 = 0
    /\ overlays = << >> /\ residual_regions = << >>
    /\ regions_sorted = << >> /\ c1 = 0 /\ clusters = << >>
    /\ credits_block = << >> /\ detection = << >>

Init == DetInit /\ ScoreIdle /\ GrpIdle /\ LineIdle /\ QuadIdle /\ EngIdle /\ StoreIdle

Next ==
    \/ DetectSelectBand
    \/ Pass1Step
    \/ DetectAfterPass1
    \/ ClusterStep
    \/ ScoreAndSelect

Spec == Init /\ [][Next]_vars

\* Pass 1 alone, handed any list of regions (with or without geometry)
Pass1Init ==
    /\ band_regions \in SeqsUpTo(DetectPool, MaxRegions)
    /\ line_regions = band_regions
    /\ dpc = "pass1"
    /\ band_name = "BOTTOM_BAND" /\ band_bbox_norm = BOTTOM_BBOX /\ p1 = 1
    /\ overlays = << >> /\ residual_regions = << >>
    /\ regions_sorted = << >> /\ c1 = 0 /\ clusters = << >>
    /\ credits_block = << >> /\ detection = << >>

InitPass1 == Pass1Init /\ ScoreIdle /\ GrpIdle /\ LineIdle /\ QuadIdle /\ EngIdle /\ StoreIdle

NextPass1 == Pass1Step

SpecPass1 == InitPass1 /\ [][NextPass1]_vars

\* detect_credits_band handed malformed and degenerate boxes: fewer than 4
\* values, zero area, zero height, coordinates outside [0, 1]
D_SHORT      == PlainRegion(T_YEAR, << 100, 800 >>)
D_ZEROAREA   == PlainRegion(T_YEAR, << 100, 800, 100, 800 >>)
D_ZEROHEIGHT == PlainRegion(T_CREDIT, << 100, 800, 900, 800 >>)
D_OUT_X      == PlainRegion(T_YEAR, << 100, 900, 1200, 950 >>)
D_OUT_Y      == PlainRegion(T_YEAR, << 100, 950, 900, 1050 >>)
D_NEG_X      == PlainRegion(T_YEAR, << -50, 800, 900, 850 >>)

DegeneratePool == { D_SHORT, D_ZEROAREA, D_ZEROHEIGHT, D_OUT_X, D_OUT_Y, D_NEG_X, R_YEAR,
                    R_YEAR_TOP, R_HANDLE_URL }

DegenerateInit ==
    /\ line_regions \in SeqsUpTo(DegeneratePool, MaxRegions)
    /\ dpc = "select"
    /\ band_name = "" /\ band_bbox_norm = << >> /\ band_regions = << >> /\ p1 = 0
    /\ overlays = << >> /\ residual_regions = << >>
    /\ regions_sorted = << >> /\ c1 = 0 /\ clusters = << >>
    /\ credits_block = << >> /\ detection = << >>

InitDegenerate == DegenerateInit /\ ScoreIdle /\ GrpIdle /\ LineIdle /\ QuadIdle /\ EngIdle /\ StoreIdle

NextDegenerate ==
    \/ DetectSelectBand
    \/ Pass1Step
    \/ DetectAfterPass1
    \/ ClusterStep
    \/ ScoreAndSelect

SpecDegenerate == InitDegenerate /\ [][NextDegenerate]_vars

\* C11 as stated: detect_credits_band never raises on malformed or
\* degenerate geometry (a box with fewer than 4 values, zero area or height,
\* or coordinates outside [0, 1]); it returns None or a detection.
C11_NeverRaises ==
    dpc # "raised"


----------------------------------------------------------------------------
\* Properties of the credits band detector

\* the members of s picked by a boolean mask
RECURSIVE MaskPick(_, _, _)
MaskPick(s, mask, want) ==
    IF s = << >> THEN << >>
    ELSE (IF mask[1] = want THEN << s[1] >> ELSE << >>)
         \o MaskPick(Tail(s), Tail(mask), want)

\* the overlay element ov was made from region r
OverlayMadeFrom(ov, r) ==
    /\ geometry_from_detected_text(r) = << ov.geometry >>
    /\ ov.text = (IF r.text # << >> THEN << r.text >> ELSE << >>)
    /\ ov.locked

\* C1: Pass 1 partitions its input.  After n regions have been processed
\* the n regions split, by one assignment of each region to exactly one side,
\* into the regions that became the overlays (in order) and the regions that
\* are residual_regions (in order); so at the end
\* len(overlays) + len(residual_regions) = len(band_regions).
C1_PartitionTotal ==
    dpc = "pass1" =>
        LET n    == p1 - 1
            done == SubSeq(band_regions, 1, n)
        IN  /\ Len(overlays) + Len(residual_regions) = n
            /\ \E mask \in [1..n -> BOOLEAN] :
                  /\ MaskPick(done, mask, FALSE) = residual_regions
                  /\ LET src == MaskPick(done, mask, TRUE)
                     IN  /\ Len(src) = Len(overlays)
                         /\ \A k \in 1..Len(src) : OverlayMadeFrom(overlays[k], src[k])

\* C1 witness: a list of three regions fully processed, one without
\* geometry, at least one overlay and at least one residual region
C1_Witness ==
    /\ dpc = "pass1" /\ Len(band_regions) = 3 /\ p1 = 4
    /\ \E n \in 1..3 : geometry_from_detected_text(band_regions[n]) = << >>
    /\ overlays # << >> /\ Len(residual_regions) >= 2

ScoresOf(cls, band_bbox) == [n \in 1..Len(cls) |-> _score_cluster(cls[n], band_bbox).score]

\* C2: once Pass 2 has run on at least one cluster, a credits block is
\* returned iff the maximum cluster score is >= 2.0; the block is built from
\* a cluster whose score is >= every other score and its confidence is
\* min(1.0, score / 5.0); below 2.0 the result is None.
C2_BlockIffBestAtLeastTwo ==
    (dpc = "done" /\ clusters # << >>) =>
        LET scores == ScoresOf(clusters, band_bbox_norm)
            N      == 1..Len(clusters)
            IsMax(n) == \A m \in N : FracGeq(scores[n], scores[m])
        IN  IF \E n \in N : scores[n].num >= 2 * scores[n].den
            THEN /\ credits_block # << >>
                 /\ \E n \in N :
                       /\ IsMax(n)
                       /\ credits_block[1].geometry.bbox_norm
                              = _compute_oriented_bbox_for_cluster(clusters[n])
                       /\ LET conf == credits_block[1].confidence
                          IN  IF scores[n].num >= 5 * scores[n].den
                              THEN conf.num = conf.den
                              ELSE conf.num * 5 * scores[n].den
                                       = scores[n].num * conf.den
                 /\ detection[1].credits_block = credits_block
            ELSE credits_block = << >> /\ detection[1].credits_block = << >>

\* C2 witness: two clusters, the second one the best, and a block accepted
\* from it
C2_Witness ==
    /\ dpc = "done" /\ Len(clusters) >= 2 /\ credits_block # << >>
    /\ LET scores == ScoresOf(clusters, band_bbox_norm)
       IN  /\ FracLess(scores[1], Frac(2, 1))
           /\ FracGeq(scores[2], Frac(2, 1))

C3_TopIn(r, lo, hi) ==
    Len(r.boundingBox) >= 4 /\ lo <= r.boundingBox[2] /\ r.boundingBox[2] <= hi
C3_InBottom(r) == C3_TopIn(r, 700, 1000)
C3_InTop(r) == C3_TopIn(r, 0, 250)

\* C3: the bottom band has strict priority.  If a region's top y1 lies in
\* [0.70, 1.00] the band is BOTTOM_BAND, [0, 0.70, 1, 1.00], with exactly
\* those regions; otherwise, if a region's y1 lies in [0.00, 0.25], the band
\* is TOP_LITE_BAND with exactly those; otherwise the band is empty and
\* detect_credits_band returns None.
C3_BottomBandPriority ==
    dpc # "select" =>
        IF \E n \in 1..Len(line_regions) : C3_InBottom(line_regions[n])
        THEN /\ band_name = "BOTTOM_BAND"
             /\ band_bbox_norm = << 0, 700, 1000, 1000 >>
             /\ band_regions = SelectSeq(line_regions, C3_InBottom)
        ELSE IF \E n \in 1..Len(line_regions) : C3_InTop(line_regions[n])
        THEN /\ band_name = "TOP_LITE_BAND"
             /\ band_bbox_norm = << 0, 0, 1000, 250 >>
             /\ band_regions = SelectSeq(line_regions, C3_InTop)
        ELSE /\ band_regions = << >>
             /\ dpc = "done"
             /\ detection = << >>

\* C3 witness: a bottom-band region and a top-band region in one input; the
\* bottom band is chosen and the top-band region is left out
C3_Witness ==
    /\ dpc = "done" /\ band_name = "BOTTOM_BAND"
    /\ \E n \in 1..Len(line_regions) : C3_InTop(line_regions[n])
    /\ \E n \in 1..Len(line_regions) : line_regions[n].boundingBox = B_TALL
    /\ Len(band_regions) < Len(line_regions)
    /\ detection # << >>

C7_HasAt(r) == Contains(<<"@">>, r.text)
C7_HasUrl(r) == ~C7_HasAt(r) /\ ContainsAny(URL_TOKENS, StrUpper(r.text))
C7_IsSocial(ov) == ov.element_type = "SOCIAL_HANDLE"
C7_IsUrl(ov) == ov.element_type = "URL"

\* C7: text-pattern rules come first.  Of the band regions processed so far,
\* those whose text contains '@' are, one for one and in order, the
\* SOCIAL_HANDLE overlays, and those without '@' whose uppercased text
\* contains a URL token are the URL overlays, whatever their geometry; no
\* residual region contains '@' or a URL token.
C7_TextRulesFirst ==
    dpc \in {"pass1", "cluster", "done"} =>
        LET done    == SubSeq(band_regions, 1, IF dpc = "pass1" THEN p1 - 1
                                               ELSE Len(band_regions))
            handles == SelectSeq(done, C7_HasAt)
            urls    == SelectSeq(done, C7_HasUrl)
            social  == SelectSeq(overlays, C7_IsSocial)
            urlovs  == SelectSeq(overlays, C7_IsUrl)
        IN  /\ Len(social) = Len(handles)
            /\ \A k \in 1..Len(handles) : OverlayMadeFrom(social[k], handles[k])
            /\ Len(urlovs) = Len(urls)
            /\ \A k \in 1..Len(urls) : OverlayMadeFrom(urlovs[k], urls[k])
            /\ \A k \in 1..Len(residual_regions) :
                  ~C7_HasAt(residual_regions[k]) /\ ~C7_HasUrl(residual_regions[k])

\* C7 witness: a handle of area < 0.0020, a handle containing ".COM" and a
\* URL of area < 0.0020 have all become text-typed overlays
C7_Witness ==
    /\ dpc = "done"
    /\ \E k \in 1..Len(overlays) :
          /\ overlays[k].element_type = "SOCIAL_HANDLE"
          /\ area_from_bbox(overlays[k].geometry.bbox_norm) < 2000
    /\ \E k \in 1..Len(overlays) :
          /\ overlays[k].element_type = "SOCIAL_HANDLE"
          /\ Contains(<<".","C","O","M">>, StrUpper(overlays[k].text[1]))
    /\ \E k \in 1..Len(overlays) :
          /\ overlays[k].element_type = "URL"
          /\ area_from_bbox(overlays[k].geometry.bbox_norm) < 2000

\* the text matches a rating token: one of its words, uppercased, is a token
C8_MatchesRatingToken(text) ==
    LET ws == StrSplit(StrUpper(text))
    IN  \E k \in 1..Len(ws) : \E t \in 1..Len(RATING_PATTERNS) : ws[k] = RATING_PATTERNS[t]

\* C8: a region with geometry, no '@', no URL token, area >= 0.0020 and not
\* (height < 0.030 and aspect > 3.5) is a RATING_BADGE overlay only if its
\* text matches a rating token; otherwise it is residual.  Stated on the
\* outputs: every RATING_BADGE overlay carries a text that matches a rating
\* token.
C8_RatingBadgeOnlyOnToken ==
    \A k \in 1..Len(overlays) :
        overlays[k].element_type = "RATING_BADGE" =>
            /\ overlays[k].text # << >>
            /\ C8_MatchesRatingToken(overlays[k].text[1])


----------------------------------------------------------------------------
\* _score_cluster and the selection applied to one cluster drawn from lines
\* of five kinds

S_BOX     == << 100, 900, 900, 920 >>
S_BOXHIGH == << 100, 100, 900, 200 >>

ScoreKinds == <<
    OcrRegion(T_MUSIC, S_BOX, 3),
    OcrRegion(T_YEAR, S_BOX, -3),
    PlainRegion(T_YEAR, S_BOX),
    PlainRegion(T_MUSIC, S_BOX),
    OcrRegion(T_YEAR, S_BOXHIGH, 12) >>

\* most lines in a scored cluster
MaxScoreLines == 10

\* the cluster with counts[k] lines of kind k, kind by kind
RECURSIVE ClusterOfCounts(_, _)
ClusterOfCounts(counts, k) ==
    IF k > Len(ScoreKinds) THEN << >>
    ELSE [n \in 1..counts[k] |-> ScoreKinds[k]] \o ClusterOfCounts(counts, k + 1)

RECURSIVE CountVectors(_, _)
CountVectors(k, left) ==
    IF k = 0 THEN { << >> }
    ELSE UNION { { Append(v, n) : v \in CountVectors(k - 1, left - n) } : n \in 0..left }

ScoreClusters ==
    { ClusterOfCounts(v, 1) : v \in CountVectors(Len(ScoreKinds), MaxScoreLines) } \ { << >> }

ScoreInit ==
    /\ sc_cluster \in ScoreClusters
    /\ sc_band \in { BOTTOM_BBOX, TOP_LITE_BBOX }
    /\ sc_pc = "start"
    /\ sc_score = Frac(0, 1) /\ sc_stats = << >> /\ sc_block = << >>

ScoreCluster ==
    /\ sc_pc = "start"
    /\ LET r == _score_cluster(sc_cluster, sc_band)
       IN  sc_score' = r.score /\ sc_stats' = r.stats
    /\ sc_pc' = "scored"
    /\ UNCHANGED <<sc_cluster, sc_band, sc_block>>
    /\ UNCHANGED <<detVars, grpVars, lineVars, quadVars, engVars, storeVars>>

\* the selection of _detect_credits_block on the list holding this cluster
ScoreSelect ==
    /\ sc_pc = "scored"
    /\ sc_block' = SelectBlock(<< sc_cluster >>, sc_band)
    /\ sc_pc' = "selected"
    /\ UNCHANGED <<sc_cluster, sc_band, sc_score, sc_stats>>
    /\ UNCHANGED <<detVars, grpVars, lineVars, quadVars, engVars, storeVars>>

InitScore == DetIdle /\ ScoreInit /\ GrpIdle /\ LineIdle /\ QuadIdle /\ EngIdle /\ StoreIdle

NextScore == ScoreCluster \/ ScoreSelect

SpecScore == InitScore /\ [][NextScore]_vars

\* the k-th smallest member of xs: the member v with #(< v) < k <= #(<= v)
C9_KthSmallest(xs, k) ==
    LET N == 1..Len(xs)
    IN  CHOOSE v \in { xs[n] : n \in N } :
            /\ Cardinality({ n \in N : xs[n] < v }) < k
            /\ Cardinality({ n \in N : xs[n] <= v }) >= k

\* twice the median: the middle member, or the sum of the two middle members
C9_Median2(xs) ==
    LET n == Len(xs)
    IN  IF n % 2 = 1 THEN 2 * C9_KthSmallest(xs, (n + 1) \div 2)
        ELSE C9_KthSmallest(xs, n \div 2) + C9_KthSmallest(xs, (n \div 2) + 1)

\* sample variance of xs times n(n-1): the sum over pairs of squared differences
C9_PairSquares(xs) ==
    LET N  == 1..Len(xs)
        sq == [pr \in N \X N |-> IF pr[1] < pr[2]
                                 THEN (xs[pr[1]] - xs[pr[2]]) * (xs[pr[1]] - xs[pr[2]])
                                 ELSE 0]
        row(i) == SumSeq([j \in N |-> sq[<<i, j>>]])
    IN  SumSeq([i \in N |-> row(i)])

C9_Angle(r) == IF r.geometry_attr # << >> THEN r.geometry_attr[1].angle_deg ELSE 0

\* twice the sum of the five threshold components of the claim
C9_Halves(cluster, band) ==
    LET N       == 1..Len(cluster)
        n       == Len(cluster)
        heights == [k \in N |-> cluster[k].boundingBox[4] - cluster[k].boundingBox[2]]
        angles  == [k \in N |-> C9_Angle(cluster[k])]
        top     == MinSeq([k \in N |-> cluster[k].boundingBox[2]])
        bottom  == MaxSeq([k \in N |-> cluster[k].boundingBox[4]])
    IN  (IF n >= 8 THEN 2 ELSE 0)
        + (IF C9_Median2(heights) <= 60 THEN 2 ELSE 0)
        + (IF n * 1000 > 10 * (bottom - top) THEN 2 ELSE 0)
        + (IF top + bottom > band[2] + band[4] THEN 1 ELSE 0)
        + (IF n <= 1 \/ C9_PairSquares(angles) <= 64 * n * (n - 1) THEN 1 ELSE 0)

C9_AnchorLines(cluster) ==
    Cardinality({ k \in 1..Len(cluster) :
        \E a \in 1..Len(CREDITS_ROLE_ANCHORS) :
            Contains(CREDITS_ROLE_ANCHORS[a], StrLower(cluster[k].text)) })

\* C9: the score of a cluster is 1.0 [line_count >= 8] + 1.0 [median font
\* height <= 0.030] + 1.0 [lines / cluster height > 10.0] + 0.5 [cluster
\* centre below the band's midpoint] + 0.5 [standard deviation of the line
\* angles <= 8.0] + (lines with a lexical anchor) / (lines); the cluster is
\* accepted iff that sum is >= 2.0, with confidence min(1, score / 5).
C9_ScoreIsSum ==
    sc_pc \in {"scored", "selected"} =>
        LET n == Len(sc_cluster)
            expected == Frac(C9_Halves(sc_cluster, sc_band) * n
                                + 2 * C9_AnchorLines(sc_cluster), 2 * n)
        IN  /\ FracEq(sc_score, expected)
            /\ sc_pc = "selected" =>
                  IF expected.num >= 2 * expected.den
                  THEN /\ sc_block # << >>
                       /\ sc_block[1].confidence.num * 5 * expected.den
                              = expected.num * sc_block[1].confidence.den
                  ELSE sc_block = << >>

\* C9 witness: the cluster of the example, 10 lines, median font height
\* 0.02, dense, below the midpoint, sample deviation of the angles exactly
\* 2.0, 3 anchor lines of 10: score 4.3, accepted with confidence 0.86
C9_Witness ==
    /\ sc_pc = "selected"
    /\ Len(sc_cluster) = 10
    /\ sc_stats[1].median_font_height2 = 40
    /\ sc_stats[1].dense
    /\ sc_stats[1].bbox_norm[2] + sc_stats[1].bbox_norm[4] > sc_band[2] + sc_band[4]
    /\ C9_PairSquares([k \in 1..10 |-> C9_Angle(sc_cluster[k])]) = 4 * 10 * 9
    /\ sc_stats[1].lex_boost = Frac(3, 10)
    /\ sc_score.num * 10 = 43 * sc_score.den
    /\ sc_block # << >>
    /\ sc_block[1].confidence.num * 100 = 86 * sc_block[1].confidence.den


----------------------------------------------------------------------------
\* _classify_group

\* the certification test of one line
IsCertificationLine(line_text) ==
    LET text == StrStrip(line_text)
    IN  /\ Len(text) < 10
        /\ StrIsUpper(text)
        /\ Contains(<<".">>, text)
        /\ ContainsAny(CERTIFICATION_PATTERNS, text)

RECURSIVE CountCapitalized(_)
CountCapitalized(ws) ==
    IF ws = << >> THEN 0
    ELSE (IF ws[1] # << >> /\ IsUpperChar(ws[1][1]) THEN 1 ELSE 0)
         + CountCapitalized(Tail(ws))

\* the proper-name test of one line: >= 2 words, >= 70% of them capitalised
IsProperNameLine(line_text) ==
    LET ws == StrSplit(StrStrip(line_text))
    IN  /\ Len(ws) >= 2
        /\ 10 * CountCapitalized(ws) >= 7 * Len(ws)

\* `for line in lines: if test(line): return`, one loop per rule
RECURSIVE AnyCertification(_)
AnyCertification(ls) ==
    IF ls = << >> THEN FALSE
    ELSE IF IsCertificationLine(ls[1].text) THEN TRUE ELSE AnyCertification(Tail(ls))

RECURSIVE AnyAnchor(_)
AnyAnchor(ls) ==
    IF ls = << >> THEN FALSE
    ELSE IF HasAnchor(ls[1].text) THEN TRUE ELSE AnyAnchor(Tail(ls))

RECURSIVE AnyProperName(_)
AnyProperName(ls) ==
    IF ls = << >> THEN FALSE
    ELSE IF IsProperNameLine(ls[1].text) THEN TRUE ELSE AnyProperName(Tail(ls))

\* mutant of _classify_group: the role-anchor rule is tried before the
\* certification rule
_classify_group_TitleFirst(ls) ==
    IF ls = << >> THEN "UNKNOWN"
    ELSE IF AnyAnchor(ls) THEN "TITLE"
    ELSE IF AnyCertification(ls) THEN "CERTIFICATION"
    ELSE IF AnyProperName(ls) THEN "PROPER_NAME"
    ELSE "UNKNOWN"

_classify_group(ls) ==
    IF ls = << >> THEN "UNKNOWN"
    ELSE IF AnyCertification(ls) THEN "CERTIFICATION"
    ELSE IF AnyAnchor(ls) THEN "TITLE"
    ELSE IF AnyProperName(ls) THEN "PROPER_NAME"
    ELSE "UNKNOWN"

----------------------------------------------------------------------------
\* group_credits_lines

RECURSIVE MatchedAnchors(_, _)
MatchedAnchors(text_lower, k) ==
    IF k > Len(CREDITS_ROLE_ANCHORS) THEN << >>
    ELSE (IF Contains(CREDITS_ROLE_ANCHORS[k], text_lower)
          THEN << CREDITS_ROLE_ANCHORS[k] >> ELSE << >>)
         \o MatchedAnchors(text_lower, k + 1)

\* the preliminary CreditLines: one per region that has geometry
RECURSIVE BuildCreditLines(_)
BuildCreditLines(regions) ==
    IF regions = << >> THEN << >>
    ELSE LET geometry == geometry_from_detected_text(regions[1])
         IN  (IF geometry = << >> THEN << >>
              ELSE << [text |-> regions[1].text,
                       geometry |-> geometry[1],
                       font_height_norm |-> font_height_from_geometry(geometry[1]),
                       hints |-> MatchedAnchors(StrLower(regions[1].text), 1)] >>)
             \o BuildCreditLines(Tail(regions))

\* mutant of PairQualifies: the vertical gap is not tested
PairQualifies_AnyGap(line1, line2) ==
    LET bbox1 == line1.geometry.bbox_norm
        bbox2 == line2.geometry.bbox_norm
        overlap_width == Max2(0, Min2(bbox1[3], bbox2[3]) - Max2(bbox1[1], bbox2[1]))
        widest == Max2(Max2(bbox1[3] - bbox1[1], bbox2[3] - bbox2[1]), 1)
    IN  /\ ~(line1.font_height_norm >= line2.font_height_norm)
        /\ overlap_width * OVER_UNDER_MIN_X_OVERLAP_DEN
               >= OVER_UNDER_MIN_X_OVERLAP_NUM * widest

\* the over/under test of line1 (earlier) against line2 (later)
PairQualifies(line1, line2) ==
    LET bbox1 == line1.geometry.bbox_norm
        bbox2 == line2.geometry.bbox_norm
        \* centres are doubled, so is the gap
        gap_y2 == Abs(line2.geometry.center_norm.y - line1.geometry.center_norm.y)
        overlap_width == Max2(0, Min2(bbox1[3], bbox2[3]) - Max2(bbox1[1], bbox2[1]))
        widest == Max2(Max2(bbox1[3] - bbox1[1], bbox2[3] - bbox2[1]), 1)
    IN  /\ ~(line1.font_height_norm >= line2.font_height_norm)
        /\ ~(gap_y2 > 2 * OVER_UNDER_MAX_GAP_Y)
        /\ overlap_width * OVER_UNDER_MIN_X_OVERLAP_DEN
               >= OVER_UNDER_MIN_X_OVERLAP_NUM * widest

\* the nested loops `for i ... for j > i`: qualifying pairs in (i, j) order
RECURSIVE DetectPairs(_, _, _)
DetectPairs(cls, i, j) ==
    IF i > Len(cls) THEN << >>
    ELSE IF j > Len(cls) THEN DetectPairs(cls, i + 1, i + 2)
    ELSE (IF PairQualifies(cls[i], cls[j]) THEN << << i, j >> >> ELSE << >>)
         \o DetectPairs(cls, i, j + 1)

_union_bbox(bbox1, bbox2) ==
    IF Len(bbox1) < 4 \/ Len(bbox2) < 4 THEN << 0, 0, 1000, 1000 >>
    ELSE << Min2(bbox1[1], bbox2[1]), Min2(bbox1[2], bbox2[2]),
            Max2(bbox1[3], bbox2[3]), Max2(bbox1[4], bbox2[4]) >>

PairGroup(line1, line2) ==
    LET group_type == _classify_group(<< line1, line2 >>)
        union_bbox == _union_bbox(line1.geometry.bbox_norm, line2.geometry.bbox_norm)
    IN  [group_type |-> group_type,
         lines |-> << line1, line2 >>,
         geometry |-> [quad_norm   |-> line1.geometry.quad_norm,
                       center_norm |-> Pt(union_bbox[1] + union_bbox[3],
                                          union_bbox[2] + union_bbox[4]),
                       angle_deg   |-> Frac(line1.geometry.angle_deg
                                            + line2.geometry.angle_deg, 2),
                       bbox_norm   |-> union_bbox],
         localizable |-> (group_type = "TITLE"),
         confidence |-> Frac(8, 10)]

SingleGroup(line) ==
    LET group_type == _classify_group(<< line >>)
    IN  [group_type |-> group_type,
         lines |-> << line >>,
         geometry |-> line.geometry,
         localizable |-> (group_type = "TITLE"),
         confidence |-> Frac(6, 10)]

\* mutant of PairBlocked: a pair is skipped only when both lines are used
PairBlocked_BothUsed(used, i, j) == i \in used /\ j \in used

\* `if i in used_indices or j in used_indices: continue`
PairBlocked(used, i, j) == i \in used \/ j \in used

\* the closing loop: a singleton group for every unused line, in order
RECURSIVE SingleGroups(_, _, _)
SingleGroups(cls, used, i) ==
    IF i > Len(cls) THEN << >>
    ELSE (IF i \in used THEN << >> ELSE << SingleGroup(cls[i]) >>)
         \o SingleGroups(cls, used, i + 1)

T_DIRECTED == <<"D","i","r","e","c","t","e","d"," ","b","y">>
T_NAME == <<"J","a","n","e"," ","D","o","e">>
T_ACE == <<"A",".","C",".","E",".">>
T_HELLO == <<"h","e","l","l","o">>

G_B1     == << 100, 100, 500, 110 >>
G_B2     == << 100, 104, 500, 116 >>
G_B3     == << 100, 108, 500, 122 >>
G_FAR    == << 100, 300, 500, 320 >>
G_NARROW == << 100, 106, 300, 120 >>

\* line regions of the re-OCR of the credits crop
GroupPool == { OcrRegion(T_DIRECTED, G_B1, 0), OcrRegion(T_NAME, G_B2, 0),
               OcrRegion(T_ACE, G_B3, 0), OcrRegion(T_HELLO, G_B1, 0),
               OcrRegion(T_ACE, G_B1, 0), OcrRegion(T_DIRECTED, G_B2, 2),
               OcrRegion(T_NAME, G_B3, 0), PlainRegion(T_NAME, G_FAR),
               OcrRegion(T_HELLO, G_NARROW, 0), R_NOBOX }

\* longest list of line regions handed to the grouper
MaxLines == 3

GroupInit ==
    /\ g_regions \in SeqsUpTo(GroupPool, MaxLines)
    /\ gpc = "start"
    /\ credit_lines = << >> /\ over_under_pairs = << >> /\ gp = 0
    /\ used_indices = {} /\ groups = << >>

\* `if not line_regions: return []`, else the preliminary CreditLines
GroupBuildLines ==
    /\ gpc = "start"
    /\ IF g_regions = << >>
       THEN gpc' = "done" /\ credit_lines' = credit_lines
       ELSE gpc' = "pairs" /\ credit_lines' = BuildCreditLines(g_regions)
    /\ UNCHANGED <<g_regions, over_under_pairs, gp, used_indices, groups>>
    /\ UNCHANGED <<detVars, scoreVars, lineVars, quadVars, engVars, storeVars>>

GroupDetectPairs ==
    /\ gpc = "pairs"
    /\ over_under_pairs' = DetectPairs(credit_lines, 1, 2)
    /\ gp' = 1
    /\ gpc' = "group"
    /\ UNCHANGED <<g_regions, credit_lines, used_indices, groups>>
    /\ UNCHANGED <<detVars, scoreVars, lineVars, quadVars, engVars, storeVars>>

\* one iteration of `for i, j in over_under_pairs`
GroupPairStep ==
    /\ gpc = "group"
    /\ gp <= Len(over_under_pairs)
    /\ LET i == over_under_pairs[gp][1]
           j == over_under_pairs[gp][2]
       IN  IF PairBlocked(used_indices, i, j)
           THEN UNCHANGED <<groups, used_indices>>
           ELSE /\ groups' = Append(groups, PairGroup(credit_lines[i], credit_lines[j]))
                /\ used_indices' = used_indices \cup {i, j}
    /\ gp' = gp + 1
    /\ UNCHANGED <<g_regions, gpc, credit_lines, over_under_pairs>>
    /\ UNCHANGED <<detVars, scoreVars, lineVars, quadVars, engVars, storeVars>>

\* `for i, line in enumerate(credit_lines)` and the return
GroupSingles ==
    /\ gpc = "group"
    /\ gp > Len(over_under_pairs)
    /\ groups' = groups \o SingleGroups(credit_lines, used_indices, 1)
    /\ gpc' = "done"
    /\ UNCHANGED <<g_regions, credit_lines, over_under_pairs, gp, used_indices>>
    /\ UNCHANGED <<detVars, scoreVars, lineVars, quadVars, engVars, storeVars>>

InitGroup == DetIdle /\ ScoreIdle /\ GroupInit /\ LineIdle /\ QuadIdle /\ EngIdle /\ StoreIdle

NextGroup == GroupBuildLines \/ GroupDetectPairs \/ GroupPairStep \/ GroupSingles

SpecGroup == InitGroup /\ [][NextGroup]_vars

----------------------------------------------------------------------------
\* Properties of the credits line grouper

RECURSIVE C4_Flatten(_)
C4_Flatten(gs) == IF gs = << >> THEN << >> ELSE gs[1].lines \o C4_Flatten(Tail(gs))

C4_Count(s, v) == Cardinality({ n \in 1..Len(s) : s[n] = v })

C4_HasGeometry(r) == r.geometry_attr # << >> \/ Len(r.boundingBox) >= 4

\* C4: in the output of group_credits_lines every credit line is in exactly
\* one group.  The lines of all groups taken together are the credit lines,
\* each as often as it occurs in the input (one credit line per input line
\* with geometry); every group has 1 or 2 lines; a line in a pair is in no
\* other group.  With 3 lines where (0,1) and (1,2) both qualify the groups
\* are the pair of lines 0, 1 and the singleton of line 2.
C4_ExactlyOneGroup ==
    gpc = "done" =>
        LET flat == C4_Flatten(groups)
        IN  /\ Len(credit_lines) = Len(SelectSeq(g_regions, C4_HasGeometry))
            /\ Len(flat) = Len(credit_lines)
            /\ \A n \in 1..Len(credit_lines) :
                  C4_Count(flat, credit_lines[n]) = C4_Count(credit_lines, credit_lines[n])
            /\ \A g \in 1..Len(groups) : Len(groups[g].lines) \in {1, 2}
            /\ (/\ Len(credit_lines) = 3
                /\ PairQualifies(credit_lines[1], credit_lines[2])
                /\ PairQualifies(credit_lines[2], credit_lines[3]))
               => /\ Len(groups) = 2
                  /\ groups[1].lines = << credit_lines[1], credit_lines[2] >>
                  /\ groups[2].lines = << credit_lines[3] >>

\* C4 witness: 3 lines, (0,1) and (1,2) both qualify, grouping finished
C4_Witness ==
    /\ gpc = "done"
    /\ Len(credit_lines) = 3
    /\ << 1, 2 >> \in { over_under_pairs[n] : n \in 1..Len(over_under_pairs) }
    /\ << 2, 3 >> \in { over_under_pairs[n] : n \in 1..Len(over_under_pairs) }
    /\ Len(groups) = 2

C5_Any(ls, Test(_)) == \E n \in 1..Len(ls) : Test(ls[n].text)

\* C5: the group type is CERTIFICATION if any line of the group passes the
\* certification rule, else TITLE if any line contains a role anchor, else
\* PROPER_NAME if any line passes the proper-name rule, else UNKNOWN; and
\* localizable holds iff the type is TITLE.
C5_ClassifyPriority ==
    \A g \in 1..Len(groups) :
        LET ls == groups[g].lines
            expected == IF C5_Any(ls, IsCertificationLine) THEN "CERTIFICATION"
                        ELSE IF C5_Any(ls, HasAnchor) THEN "TITLE"
                        ELSE IF C5_Any(ls, IsProperNameLine) THEN "PROPER_NAME"
                        ELSE "UNKNOWN"
        IN  /\ groups[g].group_type = expected
            /\ groups[g].localizable <=> (groups[g].group_type = "TITLE")

\* C5 witness: a 2-line group in which one line is a certification token
\* and the other contains a role anchor; it is CERTIFICATION, not localizable
C5_Witness ==
    \E g \in 1..Len(groups) :
        /\ Len(groups[g].lines) = 2
        /\ \E a, b \in 1..2 :
              /\ IsCertificationLine(groups[g].lines[a].text)
              /\ HasAnchor(groups[g].lines[b].text)
        /\ groups[g].group_type = "CERTIFICATION"
        /\ ~groups[g].localizable


----------------------------------------------------------------------------
\* _group_words_into_lines_rotation_aware (ocr_client.py)
\*
\* A word is a WordData tuple (text, x1, y1, x2, y2, height, vertices_norm,
\* angle_deg), here a record.  Angles are multiples of 90 degrees, for which
\* the rotation is exact.  Rotated y values are kept multiplied by 2n, n the
\* number of words of the paragraph.

Word(text, x1, y1, x2, y2, verts, angle) ==
    [text |-> text, x1 |-> x1, y1 |-> y1, x2 |-> x2, y2 |-> y2,
     height |-> y2 - y1, vertices_norm |-> verts, angle_deg |-> angle]

paragraph_y_threshold == 50

\* mutant of SortWordsByYX: the key is (x1, y1)
SortWordsByYX_XY(ws) ==
    SortedByKey(ws, [n \in 1..Len(ws) |-> << ws[n].x1, ws[n].y1 >>])

\* sorted(words, key=lambda w: (w[2], w[1]))
SortWordsByYX(ws) ==
    SortedByKey(ws, [n \in 1..Len(ws) |-> << ws[n].y1, ws[n].x1 >>])

\* the sweep over words_sorted: cur is current_paragraph
RECURSIVE SweepParagraphs(_, _)
SweepParagraphs(ws, cur) ==
    IF ws = << >> THEN (IF cur # << >> THEN << cur >> ELSE << >>)
    ELSE IF cur = << >> THEN SweepParagraphs(Tail(ws), << ws[1] >>)
    ELSE IF Abs(ws[1].y1 - cur[Len(cur)].y1) <= paragraph_y_threshold
         THEN SweepParagraphs(Tail(ws), Append(cur, ws[1]))
         ELSE << cur >> \o SweepParagraphs(Tail(ws), << ws[1] >>)

\* sorted(xs)[len(xs) // 2]
MiddleOfSorted(xs) == SortedInts(xs)[(Len(xs) \div 2) + 1]

RECURSIVE FilterNear(_, _, _)
FilterNear(angles, center, limit) ==
    IF angles = << >> THEN << >>
    ELSE (IF Abs(angles[1] - center) <= limit THEN << angles[1] >> ELSE << >>)
         \o FilterNear(Tail(angles), center, limit)

DominantAngle(para_words) ==
    LET angles == [n \in 1..Len(para_words) |-> para_words[n].angle_deg]
    IN  IF angles = << >> THEN 0
        ELSE LET median_angle == MiddleOfSorted(angles)
                 filtered_angles == FilterNear(angles, median_angle, 45)
             IN  IF filtered_angles # << >> THEN MiddleOfSorted(filtered_angles)
                 ELSE median_angle

\* cos and sin of a multiple of 90 degrees
CosDeg(a) == LET m == a % 360 IN IF m = 0 THEN 1 ELSE IF m = 180 THEN -1 ELSE 0
SinDeg(a) == LET m == a % 360 IN IF m = 90 THEN 1 ELSE IF m = 270 THEN -1 ELSE 0

\* rotated_y_abs of a word, times 2n:
\*   dx * sin(-dominant) + dy * cos(-dominant) + para_centroid_y
RotatedY2n(word, para_words) ==
    LET n      == Len(para_words)
        sum_cx == SumSeq([k \in 1..n |-> para_words[k].x1 + para_words[k].x2])
        sum_cy == SumSeq([k \in 1..n |-> para_words[k].y1 + para_words[k].y2])
        dom    == DominantAngle(para_words)
        cos_a  == CosDeg(0 - dom)
        sin_a  == SinDeg(0 - dom)
        dx2n   == n * (word.x1 + word.x2) - sum_cx
        dy2n   == n * (word.y1 + word.y2) - sum_cy
    IN  dx2n * sin_a + dy2n * cos_a + sum_cy

MedianHeight(para_words) ==
    MiddleOfSorted([n \in 1..Len(para_words) |-> para_words[n].height])

\* sorted(word_rotated_data, key=rotated_y)
SortByRotatedY(para_words) ==
    SortedByKey(para_words,
        [n \in 1..Len(para_words) |-> << RotatedY2n(para_words[n], para_words) >>])

\* mutant of WithinLineThreshold: the factor is 0.4 instead of 0.6
WithinLineThreshold_Narrow(dist2n_k, k, n, median_height) ==
    5 * dist2n_k <= 4 * k * n * median_height

\* abs(rotated_y - line_y_rotated) <= 0.6 * median_height, both sides times
\* 2n (the scale of rotated y) and k (the number of words of the line)
WithinLineThreshold(dist2n_k, k, n, median_height) ==
    5 * dist2n_k <= 6 * k * n * median_height

LineAccepts(line, word, para_words) ==
    LET k   == Len(line)
        sum == SumSeq([m \in 1..k |-> RotatedY2n(line[m], para_words)])
    IN  WithinLineThreshold(Abs(k * RotatedY2n(word, para_words) - sum), k,
                            Len(para_words), MedianHeight(para_words))

\* mutant of LinePlace: an unmatched word starts the list of lines afresh
LinePlace_Afresh(ls, word, para_words) ==
    IF \E n \in 1..Len(ls) : LineAccepts(ls[n], word, para_words)
    THEN LET n == CHOOSE n \in 1..Len(ls) :
                     /\ LineAccepts(ls[n], word, para_words)
                     /\ \A m \in 1..(n - 1) : ~LineAccepts(ls[m], word, para_words)
         IN  [ls EXCEPT ![n] = Append(@, word)]
    ELSE << << word >> >>

\* one iteration of `for word_data in word_rotated_sorted`
LinePlace(ls, word, para_words) ==
    IF \E n \in 1..Len(ls) : LineAccepts(ls[n], word, para_words)
    THEN LET n == CHOOSE n \in 1..Len(ls) :
                     /\ LineAccepts(ls[n], word, para_words)
                     /\ \A m \in 1..(n - 1) : ~LineAccepts(ls[m], word, para_words)
         IN  [ls EXCEPT ![n] = Append(@, word)]
    ELSE Append(ls, << word >>)

RECURSIVE JoinWords(_)
JoinWords(ws) ==
    IF ws = << >> THEN << >>
    ELSE IF Len(ws) = 1 THEN ws[1].text
    ELSE ws[1].text \o << " " >> \o JoinWords(Tail(ws))

RECURSIVE AllVertices(_)
AllVertices(ws) ==
    IF ws = << >> THEN << >> ELSE ws[1].vertices_norm \o AllVertices(Tail(ws))

Clamp01(v) == Max2(0, Min2(1000, v))

\* the DetectedText of one line of words
LineRegion(line_words, dominant_angle) ==
    LET line_words_sorted ==
            SortedByKey(line_words, [n \in 1..Len(line_words) |-> << line_words[n].x1 >>])
        all_vertices == AllVertices(line_words_sorted)
        N  == 1..Len(line_words_sorted)
        vb == bbox_from_quad(all_vertices)
        bbox == IF all_vertices # << >>
                THEN << Clamp01(vb[1]), Clamp01(vb[2]), Clamp01(vb[3]), Clamp01(vb[4]) >>
                ELSE << MinSeq([n \in N |-> line_words_sorted[n].x1]),
                        MinSeq([n \in N |-> line_words_sorted[n].y1]),
                        MaxSeq([n \in N |-> line_words_sorted[n].x2]),
                        MaxSeq([n \in N |-> line_words_sorted[n].y2]) >>
    IN  [text |-> JoinWords(line_words_sorted),
         boundingBox |-> bbox,
         role |-> "other",
         geometry_attr |-> << [quad_norm   |-> BoxQuad(bbox[1], bbox[2], bbox[3], bbox[4]),
                               center_norm |-> Pt(bbox[1] + bbox[3], bbox[2] + bbox[4]),
                               angle_deg   |-> dominant_angle] >>]

WV_A == << "A" >>
WV_B == << "B" >>
WV_C == << "C" >>
WV_D == << "D" >>
WV_E == << "E" >>
WV_F == << "F" >>
WV_G == << "G" >>

AxisWord(text, x1, y1, x2, y2) == Word(text, x1, y1, x2, y2, BoxQuad(x1, y1, x2, y2), 0)

WordPool == { AxisWord(WV_A, 100, 90, 250, 110),
              AxisWord(WV_B, 300, 100, 450, 120),
              AxisWord(WV_C, 500, 110, 650, 130),
              AxisWord(WV_D, 100, 300, 250, 320),
              AxisWord(WV_E, 300, 95, 450, 135),
              AxisWord(WV_G, 100, 350, 250, 370),
              Word(WV_F, 700, 100, 720, 200,
                   << Pt(700, 100), Pt(700, 150), Pt(720, 150), Pt(720, 200) >>, 90) }

\* longest list of words handed to the line reconstructor
MaxWords == 3

LineInit ==
    /\ words \in SeqsUpTo(WordPool, MaxWords)
    /\ lpc = "start"
    /\ paragraphs = << >> /\ para = 0 /\ para_sorted = << >> /\ lw = 0
    /\ lines = << >> /\ all_line_regions = << >>

\* `if not words: return []`, else the paragraph sweep
LineSegment ==
    /\ lpc = "start"
    /\ IF words = << >>
       THEN lpc' = "done" /\ UNCHANGED <<paragraphs, para>>
       ELSE /\ paragraphs' = SweepParagraphs(SortWordsByYX(words), << >>)
            /\ para' = 1
            /\ lpc' = "para"
    /\ UNCHANGED <<words, para_sorted, lw, lines, all_line_regions>>
    /\ UNCHANGED <<detVars, scoreVars, grpVars, quadVars, engVars, storeVars>>

\* start of one iteration of `for para_words in paragraphs`: angle, centroid,
\* rotation, median height and the sort by rotated y
LineParaBegin ==
    /\ lpc = "para"
    /\ para <= Len(paragraphs)
    /\ para_sorted' = SortByRotatedY(paragraphs[para])
    /\ lw' = 1
    /\ lines' = << >>
    /\ lpc' = "cluster"
    /\ UNCHANGED <<words, paragraphs, para, all_line_regions>>
    /\ UNCHANGED <<detVars, scoreVars, grpVars, quadVars, engVars, storeVars>>

LineClusterStep ==
    /\ lpc = "cluster"
    /\ lw <= Len(para_sorted)
    /\ lines' = LinePlace(lines, para_sorted[lw], paragraphs[para])
    /\ lw' = lw + 1
    /\ UNCHANGED <<words, lpc, paragraphs, para, para_sorted, all_line_regions>>
    /\ UNCHANGED <<detVars, scoreVars, grpVars, quadVars, engVars, storeVars>>

\* `for line_words in lines`: the line regions of the paragraph
LineMaterialize ==
    /\ lpc = "cluster"
    /\ lw > Len(para_sorted)
    /\ all_line_regions' = all_line_regions \o
           [n \in 1..Len(lines) |-> LineRegion(lines[n], DominantAngle(paragraphs[para]))]
    /\ para' = para + 1
    /\ lpc' = "para"
    /\ UNCHANGED <<words, paragraphs, para_sorted, lw, lines>>
    /\ UNCHANGED <<detVars, scoreVars, grpVars, quadVars, engVars, storeVars>>

LineReturn ==
    /\ lpc = "para"
    /\ para > Len(paragraphs)
    /\ lpc' = "done"
    /\ UNCHANGED <<words, paragraphs, para, para_sorted, lw, lines, all_line_regions>>
    /\ UNCHANGED <<detVars, scoreVars, grpVars, quadVars, engVars, storeVars>>

InitLines == DetIdle /\ ScoreIdle /\ GrpIdle /\ LineInit /\ QuadIdle /\ EngIdle /\ StoreIdle

NextLines ==
    \/ LineSegment
    \/ LineParaBegin
    \/ LineClusterStep
    \/ LineMaterialize
    \/ LineReturn

SpecLines == InitLines /\ [][NextLines]_vars

----------------------------------------------------------------------------
\* Properties of the line reconstructor

\* the current paragraph has been fully clustered and is unrotated
C6_UnrotatedClustered ==
    /\ lpc = "cluster"
    /\ lw > Len(para_sorted)
    /\ \A n \in 1..Len(paragraphs[para]) : paragraphs[para][n].angle_deg = 0

\* the vertical centres (doubled) of a and b differ by less than
\* 0.6 * median_height
C6_Close(a, b, median_height) ==
    5 * Abs((a.y1 + a.y2) - (b.y1 + b.y2)) < 6 * median_height

\* C6 as stated: in an unrotated paragraph no two words whose vertical
\* centres differ by less than 0.6 * median_height are in different lines.
C6_NeverSplitClose ==
    C6_UnrotatedClustered =>
        \A i, j \in 1..Len(lines) :
            i # j =>
                \A a \in 1..Len(lines[i]) : \A b \in 1..Len(lines[j]) :
                    ~C6_Close(lines[i][a], lines[j][b], MedianHeight(paragraphs[para]))

\* C6 amended: in an unrotated paragraph a word is never in a different line
\* from the first (topmost) word of a line when its vertical centre is at or
\* below that word's centre and less than 0.6 * median_height away from it
\* (median_height being the paragraph's middle height sorted(h)[len // 2]).
C6_NeverSplitFromLineHead ==
    C6_UnrotatedClustered =>
        \A i, j \in 1..Len(lines) :
            i # j =>
                \A b \in 1..Len(lines[j]) :
                    LET head == lines[i][1]
                        w    == lines[j][b]
                    IN  ~(/\ head.y1 + head.y2 <= w.y1 + w.y2
                          /\ C6_Close(head, w, MedianHeight(paragraphs[para])))

\* C6 witness: an unrotated paragraph of three words in two lines, the
\* second word within 0.6 * median_height of the head of its line and of
\* the third word, which the greedy mean test put in a new line
C6_Witness ==
    /\ C6_UnrotatedClustered
    /\ Len(lines) = 2 /\ Len(lines[1]) = 2 /\ Len(lines[2]) = 1
    /\ C6_Close(lines[1][1], lines[1][2], MedianHeight(paragraphs[para]))
    /\ C6_Close(lines[1][2], lines[2][1], MedianHeight(paragraphs[para]))
    /\ ~C6_Close(lines[1][1], lines[2][1], MedianHeight(paragraphs[para]))


----------------------------------------------------------------------------
\* _normalize_vertex_order (ocr_client.py)

\* mutant of _normalize_vertex_order: the top and bottom pairs are taken
\* from the input order, the sort by (y, x) is left out
_normalize_vertex_order_NoSort(vs) ==
    IF Len(vs) # 4 THEN vs
    ELSE LET top    == SortedByKey(SubSeq(vs, 1, 2), << << vs[1].x >>, << vs[2].x >> >>)
             bottom == SortedByKey(SubSeq(vs, 3, 4), << << 0 - vs[3].x >>, << 0 - vs[4].x >> >>)
         IN  << top[1], top[2], bottom[1], bottom[2] >>

_normalize_vertex_order(vs) ==
    IF Len(vs) # 4 THEN vs
    ELSE LET sorted_vertices == SortedByKey(vs, [n \in 1..4 |-> << vs[n].y, vs[n].x >>])
             top        == SubSeq(sorted_vertices, 1, 2)
             \* sorted(top, key=x): left to right
             top_sorted == SortedByKey(top, [n \in 1..2 |-> << top[n].x >>])
             bottom     == SubSeq(sorted_vertices, 3, 4)
             \* sorted(bottom, key=x, reverse=True): right to left, ties in order
             bottom_sorted == SortedByKey(bottom, [n \in 1..2 |-> << 0 - bottom[n].x >>])
         IN  << top_sorted[1], top_sorted[2], bottom_sorted[1], bottom_sorted[2] >>

\* largest coordinate of the grid the vertices are drawn from
GridMax == 2

GridPoints == { Pt(x, y) : x \in 0..GridMax, y \in 0..GridMax }

QuadInit ==
    /\ vertices \in [1..4 -> GridPoints] \cup [1..3 -> {Pt(0, 0), Pt(1, 0), Pt(0, 1)}]
    /\ qpc = "start"
    /\ once = << >> /\ twice = << >>

NormalizeOnce ==
    /\ qpc = "start"
    /\ once' = _normalize_vertex_order(vertices)
    /\ qpc' = "once"
    /\ UNCHANGED <<vertices, twice>>
    /\ UNCHANGED <<detVars, scoreVars, grpVars, lineVars, engVars, storeVars>>

NormalizeTwice ==
    /\ qpc = "once"
    /\ twice' = _normalize_vertex_order(once)
    /\ qpc' = "twice"
    /\ UNCHANGED <<vertices, once>>
    /\ UNCHANGED <<detVars, scoreVars, grpVars, lineVars, engVars, storeVars>>

InitQuad == DetIdle /\ ScoreIdle /\ GrpIdle /\ LineIdle /\ QuadInit /\ EngIdle /\ StoreIdle

NextQuad == NormalizeOnce \/ NormalizeTwice

SpecQuad == InitQuad /\ [][NextQuad]_vars

C10_Cross(a, b, c) == (b.x - a.x) * (c.y - b.y) - (b.y - a.y) * (c.x - b.x)

\* walking the four points in the order f turns the same way at every corner
C10_ConvexWalk(vs, f) ==
    LET t(n) == C10_Cross(vs[f[n]], vs[f[(n % 4) + 1]], vs[f[((n + 1) % 4) + 1]])
    IN  \/ \A n \in 1..4 : t(n) > 0
        \/ \A n \in 1..4 : t(n) < 0

\* the four points are the corners of a convex, non-degenerate quadrilateral
C10_Convex(vs) ==
    /\ Len(vs) = 4
    /\ \E f \in [1..4 -> 1..4] :
          /\ \A a, b \in 1..4 : a # b => f[a] # f[b]
          /\ C10_ConvexWalk(vs, f)

C10_YXLeq(a, b) == a.y < b.y \/ (a.y = b.y /\ a.x <= b.x)

\* C10: for 4 points forming a convex, non-degenerate quadrilateral,
\* normalising twice gives the same as normalising once, and the result is a
\* permutation of the input in TL, TR, BR, BL order: the first two are the
\* two points that come first by (y, x), left one first, the last two the
\* other two, right one first.
C10_NormalizeIdempotent ==
    (qpc = "twice" /\ C10_Convex(vertices)) =>
        /\ twice = once
        /\ \E f \in [1..4 -> 1..4] :
              /\ \A a, b \in 1..4 : a # b => f[a] # f[b]
              /\ \A a \in 1..4 : once[a] = vertices[f[a]]
        /\ \A a \in 1..2 : \A b \in 3..4 : C10_YXLeq(once[a], once[b])
        /\ once[1].x <= once[2].x
        /\ once[3].x >= once[4].x

\* C10 witness: a convex quadrilateral given in an order that is not the
\* normal one has been normalised twice
C10_Witness ==
    /\ qpc = "twice"
    /\ C10_Convex(vertices)
    /\ once # vertices
    /\ once[1].y # once[2].y
    /\ twice = once


----------------------------------------------------------------------------
\* detect_credits_band and group_credits_lines as single calls, built from
\* the same steps as the state machines above

\* the loop of _detect_credits_overlays run to its end, or to the exception
RECURSIVE Pass1All(_, _, _)
Pass1All(ovs, res, regions) ==
    IF regions = << >> THEN [overlays |-> ovs, residual |-> res, raised |-> FALSE]
    ELSE IF GeometryRaises(regions[1])
    THEN [overlays |-> ovs, residual |-> res, raised |-> TRUE]
    ELSE LET placed == Pass1Place(ovs, res, regions[1])
         IN  Pass1All(placed.overlays, placed.residual, Tail(regions))

RECURSIVE ClusterAll(_, _)
ClusterAll(cls, sorted) ==
    IF sorted = << >> THEN cls
    ELSE ClusterAll(ClusterPlace(cls, sorted[1]), Tail(sorted))

_cluster_regions(regions) == ClusterAll(<< >>, SortRegionsByYX(regions))

\* Step C of detect_credits_band: the block of the residual regions, or None
DetectBlock(band, pass1) ==
    IF pass1.residual # << >>
    THEN _detect_credits_block(_cluster_regions(pass1.residual), band.bbox)
    ELSE << >>

\* the CreditsBandDetection built at the end of detect_credits_band
DetectionOf(band, pass1, block) ==
    [band_name |-> band.name,
     band_bbox_norm |-> band.bbox,
     overlays |-> pass1.overlays,
     credits_block |-> block,
     confidence |-> IF block # << >> THEN block[1].confidence ELSE Frac(0, 1)]

\* detect_credits_band after Pass 1
DetectAfterOverlays(band, pass1) ==
    IF pass1.raised THEN [raised |-> TRUE, value |-> << >>]
    ELSE [raised |-> FALSE,
          value |-> << DetectionOf(band, pass1, DetectBlock(band, pass1)) >>]

\* detect_credits_band after Step A
DetectInBand(band) ==
    IF band.regions = << >> THEN [raised |-> FALSE, value |-> << >>]
    ELSE DetectAfterOverlays(band, Pass1All(<< >>, << >>, band.regions))

\* [raised, value]: value is << >> (None) or << CreditsBandDetection >>
detect_credits_band(regions) == DetectInBand(_select_candidate_band(regions))

RECURSIVE GroupPairs(_, _, _, _)
GroupPairs(cls, pairs, used, acc) ==
    IF pairs = << >> THEN acc \o SingleGroups(cls, used, 1)
    ELSE LET i == pairs[1][1]
             j == pairs[1][2]
         IN  IF PairBlocked(used, i, j) THEN GroupPairs(cls, Tail(pairs), used, acc)
             ELSE GroupPairs(cls, Tail(pairs), used \cup {i, j},
                             Append(acc, PairGroup(cls[i], cls[j])))

\* [raised, value]: the groups, or the exception of geometry_from_detected_text
group_credits_lines(regions) ==
    IF \E n \in 1..Len(regions) : GeometryRaises(regions[n])
    THEN [raised |-> TRUE, value |-> << >>]
    ELSE LET cls == BuildCreditLines(regions)
         IN  [raised |-> FALSE,
              value |-> IF regions = << >> THEN << >>
                        ELSE GroupPairs(cls, DetectPairs(cls, 1, 2), {}, << >>)]

----------------------------------------------------------------------------
\* LiveLocalizationEngine (app/services/live_engine.py)

Digits == <<"0","1","2","3","4","5","6","7","8","9">>
HasDigit(t) == \E n \in 1..Len(t) : \E d \in 1..10 : t[n] = Digits[d]

TAGLINE_KEYWORDS == << <<"C","O","M","I","N","G"," ","S","O","O","N">>, <<"N","O","W"," ","P","L","A","Y","I","N","G">>, <<"I","N"," ","T","H","E","A","T","E","R","S">> >>
CREDITS_KEYWORDS == << <<"D","I","R","E","C","T","E","D"," ","B","Y">>, <<"P","R","O","D","U","C","E","D"," ","B","Y">> >>
LOCKED_TOKENS == << <<"H","T","T","P">>, <<"W","W","W",".">>, <<"@">> >>

\* the role _classify_text_regions gives a region (role "other" on entry)
ClassifiedRole(text, role) ==
    LET text_upper == StrUpper(text)
    IN  IF ContainsAny(TAGLINE_KEYWORDS, text_upper) THEN "tagline"
        ELSE IF ContainsAny(CREDITS_KEYWORDS, text_upper) THEN "credits"
        ELSE IF ContainsAny(LOCKED_TOKENS, text_upper) THEN "other"
        ELSE IF Len(text_upper) > 30 THEN "title"
        ELSE IF Len(text_upper) < 10 /\ HasDigit(text_upper) THEN "other"
        ELSE role

\* new DetectedText(text, boundingBox, role): the _geometry attribute is not
\* carried over
_classify_text_regions(regions) ==
    [n \in 1..Len(regions) |->
        [text |-> regions[n].text,
         boundingBox |-> regions[n].boundingBox,
         role |-> ClassifiedRole(regions[n].text, "other")]]

_is_localizable(region) ==
    IF ContainsAny(LOCKED_TOKENS, StrUpper(region.text)) THEN FALSE
    ELSE IF region.role = "title" THEN FALSE
    ELSE TRUE

\* what the translation provider returns for the regions it is sent
ProviderTranslation(text) == <<"f","r",":">> \o text

TranslatedRegion(region, translated_text) ==
    [original_text |-> region.text, translated_text |-> translated_text,
     bounding_box |-> region.boundingBox, role |-> region.role]

\* next(tr for tr in translated_regions if tr.original_text == region.text)
TextToShow(region, trs) ==
    IF \E k \in 1..Len(trs) : trs[k].original_text = region.text
    THEN trs[CHOOSE k \in 1..Len(trs) :
                /\ trs[k].original_text = region.text
                /\ \A m \in 1..(k - 1) : trs[m].original_text # region.text].translated_text
    ELSE region.text

Progress(stage, percent, timings) ==
    << [stage |-> stage, percent |-> percent, stageTimingsMs |-> timings] >>

\* mutant of JobFailed: the error is set, the status is left as it was
JobFailed_KeepsStatus(j, code) == [j EXCEPT !.error = << code >>]

\* mutant of JobFailed: the status is set, the error is not
JobFailed_NoError(j, code) == [j EXCEPT !.status = "failed"]

\* job.status = FAILED, job.error = ErrorInfo(code=...), return job
JobFailed(j, code) == [j EXCEPT !.status = "failed", !.error = << code >>]

\* mutant of CreditsDetectionError: the exception leaves the credits stage
\* and reaches the outer handler
CreditsDetectionError_Propagates(j) == JobFailed(j, "INTERNAL_ERROR")

\* `except Exception as e: logger.warning(...)` of the credits stage: the job
\* is left as it is
CreditsDetectionError(j) == j

\* mutant of IdentityTranslations: the provider's text is used
IdentityTranslations_Provider(regions) ==
    [n \in 1..Len(regions) |->
        [original_text |-> regions[n].text,
         translated_text |-> <<"f","r",":">> \o regions[n].text,
         bounding_box |-> regions[n].boundingBox, role |-> regions[n].role]]

\* SKIP_TRANSLATION: translated_text = original_text for all regions
IdentityTranslations(regions) ==
    [n \in 1..Len(regions) |->
        [original_text |-> regions[n].text,
         translated_text |-> regions[n].text,
         bounding_box |-> regions[n].boundingBox, role |-> regions[n].role]]

\* `if credits_detection: job.credits_detection = credits_detection.model_dump()`
StoreDetection(j, det) == IF det # << >> THEN [j EXCEPT !.credits_detection = det] ELSE j

\* line regions the OCR provider may return for the poster
T_SOON == <<"C","o","m","i","n","g"," ","s","o","o","n">>
R_SOON == PlainRegion(T_SOON, B_LARGE2)
EnginePool == { R_YEAR, R_YEAR_SMALL, R_URL_SMALL, R_PG, R_SOON, D_OUT_X, R_YEAR_MID }

\* line regions the OCR provider may return for the credits crop
CropResults == { << >>, << R_CREDIT >>, << R_CREDIT, D_OUT_Y >> }

\* longest list of line regions the OCR provider returns
MaxOcrRegions == 2

EngineInit ==
    /\ settings \in [SKIP_OCR : BOOLEAN, SKIP_TRANSLATION : BOOLEAN,
                     SKIP_INPAINT : BOOLEAN, SKIP_PACKAGING : BOOLEAN]
    /\ epc = "start"
    /\ job = [status |-> "queued", error |-> << >>, progress |-> << >>,
              result |-> << >>, credits_detection |-> << >>]
    /\ ocr_result = << >> /\ classified_regions = << >> /\ credits_detection = << >>
    /\ translated_regions = << >> /\ localizable_regions = << >>
    /\ calls = [ocr |-> 0, detect |-> 0, translation |-> 0, inpaint |-> 0]
    /\ raised = {}

\* Loading the image and Stage 1.  The image may be missing (outer except:
\* INTERNAL_ERROR); the OCR provider raises or returns line regions.
EngineOcr ==
    /\ epc = "start"
    /\ \E image_ok \in BOOLEAN :
        IF ~image_ok
        THEN /\ job' = JobFailed([job EXCEPT !.status = "processing"], "INTERNAL_ERROR")
             /\ raised' = raised \cup {"image"}
             /\ epc' = "returned"
             /\ UNCHANGED <<ocr_result, classified_regions, calls>>
        ELSE IF settings.SKIP_OCR
        THEN /\ job' = [job EXCEPT !.status = "processing",
                                   !.progress = Progress("ocr", 25, {"ocr"})]
             /\ epc' = "credits"
             /\ UNCHANGED <<ocr_result, classified_regions, calls, raised>>
        ELSE /\ calls' = [calls EXCEPT !.ocr = @ + 1]
             /\ \/ /\ job' = JobFailed([job EXCEPT !.status = "processing"],
                                       "OCR_MODEL_ERROR")
                   /\ raised' = raised \cup {"ocr"}
                   /\ epc' = "returned"
                   /\ UNCHANGED <<ocr_result, classified_regions>>
                \/ \E regs \in SeqsUpTo(EnginePool, MaxOcrRegions) : \E dims_ok \in BOOLEAN :
                   /\ ocr_result' = << [text_regions |-> regs, dims_ok |-> dims_ok] >>
                   /\ classified_regions' = _classify_text_regions(regs)
                   /\ job' = [job EXCEPT !.status = "processing",
                                         !.progress = Progress("ocr", 25, {"ocr"})]
                   /\ epc' = "credits"
                   /\ UNCHANGED raised
    /\ UNCHANGED <<settings, credits_detection, translated_regions, localizable_regions>>
    /\ UNCHANGED <<detVars, scoreVars, grpVars, lineVars, quadVars, storeVars>>

\* mutant of EngineAfterDetect: the crop is sent to the OCR client for every
\* detection, with or without a credits block
EngineAfterDetect_CropAlways(d) ==
    IF d.raised
    THEN /\ raised' = raised \cup {"detect"}
         /\ epc' = "translation"
         /\ job' = CreditsDetectionError(job)
         /\ UNCHANGED credits_detection
    ELSE /\ credits_detection' = d.value
         /\ raised' = raised
         /\ IF d.value # << >>
            THEN epc' = "crop_ocr" /\ job' = job
            ELSE /\ epc' = "translation"
                 /\ job' = StoreDetection(job, d.value)

\* what the credits stage does with the outcome of detect_credits_band
EngineAfterDetect(d) ==
    IF d.raised
    THEN /\ raised' = raised \cup {"detect"}
         /\ epc' = "translation"
         /\ job' = CreditsDetectionError(job)
         /\ UNCHANGED credits_detection
    ELSE /\ credits_detection' = d.value
         /\ raised' = raised
         /\ IF d.value # << >> /\ d.value[1].credits_block # << >>
            THEN epc' = "crop_ocr" /\ job' = job
            ELSE /\ epc' = "translation"
                 /\ job' = StoreDetection(job, d.value)

\* Credits stage up to the await of the crop OCR: detect_credits_band and
\* extract_credits_crop (which catches its own exceptions)
EngineCreditsDetect ==
    /\ epc = "credits"
    /\ IF ~(~settings.SKIP_OCR /\ classified_regions # << >> /\ ocr_result # << >>)
       THEN /\ epc' = "translation"
            /\ UNCHANGED <<job, credits_detection, calls, raised>>
       ELSE IF ~ocr_result[1].dims_ok
       THEN /\ epc' = "translation"
            /\ UNCHANGED <<job, credits_detection, calls, raised>>
       ELSE /\ calls' = [calls EXCEPT !.detect = @ + 1]
            /\ EngineAfterDetect(detect_credits_band(ocr_result[1].text_regions))
    /\ UNCHANGED <<settings, ocr_result, classified_regions, translated_regions,
                   localizable_regions>>
    /\ UNCHANGED <<detVars, scoreVars, grpVars, lineVars, quadVars, storeVars>>

\* the detection with the groups written into its credits_block
WithGroups(det, credit_groups) ==
    << [det[1] EXCEPT !.credits_block = << [@[1] EXCEPT !.credit_groups = credit_groups] >>] >>

\* Credits stage from the crop OCR on: OCR of the crop, group_credits_lines,
\* the except clause, and the store of credits_detection in the job
EngineCropOcr ==
    /\ epc = "crop_ocr"
    /\ calls' = [calls EXCEPT !.ocr = @ + 1]
    /\ \/ /\ raised' = raised \cup {"crop_ocr"}
          /\ credits_detection' = credits_detection
          /\ job' = StoreDetection(CreditsDetectionError(job), credits_detection)
       \/ \E crop \in CropResults :
            LET g == group_credits_lines(crop)
            IN  IF g.raised
                THEN /\ raised' = raised \cup {"group"}
                     /\ credits_detection' = credits_detection
                     /\ job' = StoreDetection(CreditsDetectionError(job), credits_detection)
                ELSE /\ raised' = raised
                     /\ credits_detection' = WithGroups(credits_detection, g.value)
                     /\ job' = StoreDetection(job, WithGroups(credits_detection, g.value))
    /\ epc' = "translation"
    /\ UNCHANGED <<settings, ocr_result, classified_regions, translated_regions,
                   localizable_regions>>
    /\ UNCHANGED <<detVars, scoreVars, grpVars, lineVars, quadVars, storeVars>>

\* Stage 2
EngineTranslate ==
    /\ epc = "translation"
    /\ IF settings.SKIP_TRANSLATION
       THEN /\ translated_regions' = IdentityTranslations(classified_regions)
            /\ job' = [job EXCEPT !.progress = Progress("translation", 50,
                                                        {"ocr", "translation"})]
            /\ epc' = "inpaint"
            /\ UNCHANGED <<localizable_regions, calls, raised>>
       ELSE LET sent == SelectSeq(classified_regions, _is_localizable)
            IN  /\ localizable_regions' = sent
                /\ calls' = [calls EXCEPT !.translation = @ + 1]
                /\ \/ /\ job' = JobFailed(job, "TRANSLATION_MODEL_ERROR")
                      /\ raised' = raised \cup {"translation"}
                      /\ epc' = "returned"
                      /\ UNCHANGED translated_regions
                   \/ /\ translated_regions' =
                             [n \in 1..Len(sent) |->
                                 TranslatedRegion(sent[n], ProviderTranslation(sent[n].text))]
                      /\ job' = [job EXCEPT !.progress = Progress("translation", 50,
                                                                  {"ocr", "translation"})]
                      /\ epc' = "inpaint"
                      /\ UNCHANGED raised
    /\ UNCHANGED <<settings, ocr_result, classified_regions, credits_detection>>
    /\ UNCHANGED <<detVars, scoreVars, grpVars, lineVars, quadVars, storeVars>>

\* Stage 3
EngineInpaint ==
    /\ epc = "inpaint"
    /\ IF settings.SKIP_INPAINT
       THEN /\ job' = [job EXCEPT !.progress = Progress("inpaint", 75,
                                                        {"ocr", "translation", "inpaint"})]
            /\ epc' = "packaging"
            /\ UNCHANGED <<calls, raised>>
       ELSE /\ calls' = [calls EXCEPT !.inpaint = @ + 1]
            /\ \/ /\ job' = JobFailed(job, "INPAINT_MODEL_ERROR")
                  /\ raised' = raised \cup {"inpaint"}
                  /\ epc' = "returned"
               \/ /\ job' = [job EXCEPT !.progress = Progress("inpaint", 75,
                                                     {"ocr", "translation", "inpaint"})]
                  /\ epc' = "packaging"
                  /\ UNCHANGED raised
    /\ UNCHANGED <<settings, ocr_result, classified_regions, credits_detection,
                   translated_regions, localizable_regions>>
    /\ UNCHANGED <<detVars, scoreVars, grpVars, lineVars, quadVars, storeVars>>

\* Stage 4 and the result; writing the output file may fail (outer except)
EnginePackage ==
    /\ epc = "packaging"
    /\ \E write_ok \in BOOLEAN :
        IF ~settings.SKIP_PACKAGING /\ ~write_ok
        THEN /\ job' = JobFailed(job, "INTERNAL_ERROR")
             /\ raised' = raised \cup {"packaging"}
        ELSE /\ job' = [job EXCEPT
                        !.progress = Progress("packaging", 100,
                                        {"ocr", "translation", "inpaint", "packaging"}),
                        !.result = << [detectedText |->
                                        [n \in 1..Len(classified_regions) |->
                                            [text |-> TextToShow(classified_regions[n],
                                                                 translated_regions),
                                             boundingBox |-> classified_regions[n].boundingBox,
                                             role |-> classified_regions[n].role]]] >>,
                        !.status = "succeeded"]
             /\ raised' = raised
    /\ epc' = "returned"
    /\ UNCHANGED <<settings, ocr_result, classified_regions, credits_detection,
                   translated_regions, localizable_regions, calls>>
    /\ UNCHANGED <<detVars, scoreVars, grpVars, lineVars, quadVars, storeVars>>

InitEngine == DetIdle /\ ScoreIdle /\ GrpIdle /\ LineIdle /\ QuadIdle /\ EngineInit /\ StoreIdle

NextEngine ==
    \/ EngineOcr
    \/ EngineCreditsDetect
    \/ EngineCropOcr
    \/ EngineTranslate
    \/ EngineInpaint
    \/ EnginePackage

SpecEngine == InitEngine /\ [][NextEngine]_vars

\* Properties of LiveLocalizationEngine.run

CreditsSteps == {"detect", "crop_ocr", "group"}

\* C12: credits detection is additive.  When a step of the credits stage
\* has raised, the run has gone on to the translation stage (the translation
\* provider is called unless SKIP_TRANSLATION), the job is FAILED only with
\* the error of a later stage that raised itself, and a run in which nothing
\* but credits steps raised ends SUCCEEDED.
C12_CreditsAdditive ==
    (raised \cap CreditsSteps # {}) =>
        /\ epc \in {"translation", "inpaint", "packaging", "returned"}
        /\ epc \in {"inpaint", "packaging", "returned"} =>
              (settings.SKIP_TRANSLATION \/ calls.translation = 1)
        /\ job.status = "failed" =>
              \/ "translation" \in raised /\ job.error = << "TRANSLATION_MODEL_ERROR" >>
              \/ "inpaint" \in raised /\ job.error = << "INPAINT_MODEL_ERROR" >>
              \/ "packaging" \in raised /\ job.error = << "INTERNAL_ERROR" >>
        /\ (epc = "returned" /\ raised \subseteq CreditsSteps) => job.status = "succeeded"

\* C12 witness: the OCR of the credits crop raised, the translation provider
\* was called afterwards and the run ended SUCCEEDED
C12_Witness ==
    /\ epc = "returned"
    /\ raised = {"crop_ocr"}
    /\ calls.translation = 1
    /\ job.status = "succeeded"

C14_SameRegion(ov, region) ==
    /\ ov.text = << region.text >>
    /\ ov.geometry.bbox_norm = region.boundingBox

\* C14 as stated: every overlay element is locked, and no line region that
\* Pass 1 made an overlay element is among the regions sent to the
\* translation provider in the same run.
C14_OverlaysNeverTranslated ==
    credits_detection # << >> =>
        \A k \in 1..Len(credits_detection[1].overlays) :
            /\ credits_detection[1].overlays[k].locked
            /\ \A n \in 1..Len(localizable_regions) :
                  ~C14_SameRegion(credits_detection[1].overlays[k], localizable_regions[n])

\* C15 as stated: when the translation provider raised, the job is FAILED
\* with TRANSLATION_MODEL_ERROR and no result, and its progress shows stage
\* TRANSLATION, percent 50, with timings for 'ocr' and 'translation'.
C15_TranslationFailureShowsStage ==
    "translation" \in raised =>
        /\ job.status = "failed"
        /\ job.error = << "TRANSLATION_MODEL_ERROR" >>
        /\ job.result = << >>
        /\ job.progress # << >>
        /\ job.progress[1].stage = "translation"
        /\ job.progress[1].percent = 50
        /\ {"ocr", "translation"} \subseteq job.progress[1].stageTimingsMs

\* C16: when the OCR provider raised on the full image, the run has returned
\* with status FAILED, error OCR_MODEL_ERROR and no result, and neither
\* credits detection nor the translation or inpainting provider was invoked
\* (the OCR provider was called once: no crop OCR either).
C16_OcrFailureStopsRun ==
    "ocr" \in raised =>
        /\ epc = "returned"
        /\ job.status = "failed"
        /\ job.error = << "OCR_MODEL_ERROR" >>
        /\ job.result = << >>
        /\ job.credits_detection = << >>
        /\ calls = [ocr |-> 1, detect |-> 0, translation |-> 0, inpaint |-> 0]

\* C16 witness: a run whose OCR call raised, with no stage skipped
C16_Witness ==
    /\ "ocr" \in raised
    /\ epc = "returned"
    /\ ~settings.SKIP_OCR /\ ~settings.SKIP_TRANSLATION /\ ~settings.SKIP_INPAINT

NonCreditsSteps == {"image", "ocr", "translation", "inpaint", "packaging"}

\* C17: a skipped stage never calls its provider and does not prevent
\* success.  With SKIP_OCR the OCR client is never called (full image or
\* crop), detect_credits_band is never run, and a returned run in which no
\* other stage raised is SUCCEEDED with an empty detectedText; with
\* SKIP_TRANSLATION the translation client is never called and such a run is
\* SUCCEEDED with every region's text as the OCR gave it.
C17_SkippedStageNeverCalled ==
    /\ settings.SKIP_OCR =>
          /\ calls.ocr = 0 /\ calls.detect = 0
          /\ job.credits_detection = << >>
          /\ (epc = "returned" /\ raised \cap NonCreditsSteps = {}) =>
                /\ job.status = "succeeded"
                /\ job.result # << >>
                /\ job.result[1].detectedText = << >>
    /\ settings.SKIP_TRANSLATION =>
          /\ calls.translation = 0
          /\ (epc = "returned" /\ raised \cap NonCreditsSteps = {}) =>
                /\ job.status = "succeeded"
                /\ job.result # << >>
                /\ Len(job.result[1].detectedText) = Len(classified_regions)
                /\ ocr_result # << >> =>
                      \A n \in 1..Len(ocr_result[1].text_regions) :
                          job.result[1].detectedText[n].text
                              = ocr_result[1].text_regions[n].text

\* C17 witness: SKIP_TRANSLATION with OCR run on two regions, one of which
\* the provider would have been sent, and the run SUCCEEDED
C17_Witness ==
    /\ settings.SKIP_TRANSLATION /\ ~settings.SKIP_OCR
    /\ epc = "returned" /\ job.status = "succeeded"
    /\ calls.ocr >= 1 /\ calls.translation = 0
    /\ Len(job.result[1].detectedText) = 2
    /\ \E n \in 1..2 : _is_localizable(classified_regions[n])

\* a run with SKIP_OCR that SUCCEEDED without any OCR call
C17_SkipOcrReached ==
    /\ settings.SKIP_OCR /\ ~settings.SKIP_TRANSLATION
    /\ epc = "returned" /\ job.status = "succeeded"
    /\ calls.ocr = 0 /\ calls.translation = 1

----------------------------------------------------------------------------
\* JobStore (services/job_store.py).  self._jobs is a dict: modelled as the
\* sequence of its values in insertion order; the clock advances in ticks of
\* SecondsPerTick seconds.

\* JobStore(max_jobs): the capacity of the store of the model
_max_jobs == 2

\* settings.JOB_TTL_SECONDS
_ttl_seconds == 7200

SecondsPerTick == 7200

\* the clock stops after this many ticks
MaxTime == 2

JobIds == {"a", "b", "c"}
JobStatuses == {"queued", "processing", "succeeded", "failed"}

LocalizationJob(job_id, status, createdAt) ==
    [jobId |-> job_id, status |-> status, createdAt |-> createdAt]

StoreHas(jobs, job_id) == \E n \in 1..Len(jobs) : jobs[n].jobId = job_id

StoreIndex(jobs, job_id) == CHOOSE n \in 1..Len(jobs) : jobs[n].jobId = job_id

\* (now - job.createdAt).total_seconds() > self._ttl_seconds
Expired(j, t) == (t - j.createdAt) * SecondsPerTick > _ttl_seconds

\* del self._jobs[job_id] for the first k entries of sorted(items, key=createdAt)
EvictOldest(jobs, k) ==
    LET sorted_jobs == SortedByKey(jobs, [n \in 1..Len(jobs) |-> << jobs[n].createdAt >>])
        gone == { sorted_jobs[n].jobId : n \in 1..Min2(k, Len(jobs)) }
    IN  SelectSeq(jobs, LAMBDA j : j.jobId \notin gone)

\* JobStore._evict_old_jobs
_evict_old_jobs(jobs, t) ==
    LET kept == SelectSeq(jobs, LAMBDA j : ~Expired(j, t))
    IN  IF Len(kept) >= _max_jobs
        THEN EvictOldest(kept, Len(kept) - _max_jobs + 1)
        ELSE kept

\* mutant of StoreInsert: an existing entry is kept (dict.setdefault)
StoreInsert_IfAbsent(jobs, j) ==
    IF StoreHas(jobs, j.jobId) THEN jobs ELSE Append(jobs, j)

\* self._jobs[job_id] = job: a new key goes last, an existing key keeps its
\* place and gets the new value
StoreInsert(jobs, j) ==
    IF StoreHas(jobs, j.jobId)
    THEN [jobs EXCEPT ![StoreIndex(jobs, j.jobId)] = j]
    ELSE Append(jobs, j)

\* JobStore.create_job: [raised, jobs, value]
create_job(jobs, job_id, t) ==
    LET evicted == IF Len(jobs) >= _max_jobs THEN _evict_old_jobs(jobs, t) ELSE jobs
    IN  IF Len(evicted) >= _max_jobs
        THEN [raised |-> TRUE, jobs |-> evicted, value |-> << >>]
        ELSE [raised |-> FALSE,
              jobs |-> StoreInsert(evicted, LocalizationJob(job_id, "queued", t)),
              value |-> << LocalizationJob(job_id, "queued", t) >>]

\* mutant of get_job: the age of the job is not looked at
get_job_NoExpiry(jobs, job_id, t) ==
    IF StoreHas(jobs, job_id)
    THEN [jobs |-> jobs, value |-> << jobs[StoreIndex(jobs, job_id)] >>]
    ELSE [jobs |-> jobs, value |-> << >>]

\* JobStore.get_job: [jobs, value]
get_job(jobs, job_id, t) ==
    IF StoreHas(jobs, job_id)
    THEN LET j == jobs[StoreIndex(jobs, job_id)]
         IN  IF Expired(j, t)
             THEN [jobs |-> SelectSeq(jobs, LAMBDA x : x.jobId # job_id), value |-> << >>]
             ELSE [jobs |-> jobs, value |-> << j >>]
    ELSE [jobs |-> jobs, value |-> << >>]

\* JobStore.update_job with the job's status set by the background task
update_job(jobs, job_id, status) ==
    IF StoreHas(jobs, job_id)
    THEN [raised |-> FALSE,
          jobs |-> [jobs EXCEPT ![StoreIndex(jobs, job_id)].status = status]]
    ELSE [raised |-> TRUE, jobs |-> jobs]

StoreInit ==
    /\ _jobs = << >> /\ now = 0 /\ prev_jobs = << >> /\ last_op = << >>

\* POST /v1/localization-jobs: job_store.create_job(job_id, ...)
CreateJob ==
    \E job_id \in JobIds :
        LET r == create_job(_jobs, job_id, now)
        IN  /\ _jobs' = r.jobs
            /\ prev_jobs' = _jobs
            /\ last_op' = << [op |-> "create_job", id |-> job_id, raised |-> r.raised,
                              result |-> r.value, after_create |-> FALSE,
                              was_full |-> Len(_jobs) >= _max_jobs] >>
            /\ UNCHANGED now
            /\ UNCHANGED <<detVars, scoreVars, grpVars, lineVars, quadVars, engVars>>

\* the previous operation created job_id and returned
JustCreated(job_id) ==
    /\ last_op # << >>
    /\ last_op[1].op = "create_job" /\ last_op[1].id = job_id /\ ~last_op[1].raised

\* GET /v1/localization-jobs/{id}: job_store.get_job(job_id); the request is
\* recorded when it is the one right after the creation of job_id
GetJob ==
    \E job_id \in JobIds :
        LET r == get_job(_jobs, job_id, now)
        IN  /\ _jobs' = r.jobs
            /\ prev_jobs' = << >>
            /\ last_op' = IF JustCreated(job_id)
                           THEN << [op |-> "get_job", id |-> job_id, raised |-> FALSE,
                                    result |-> r.value, after_create |-> TRUE,
                                    was_full |-> last_op[1].was_full] >>
                           ELSE << >>
            /\ UNCHANGED now
            /\ UNCHANGED <<detVars, scoreVars, grpVars, lineVars, quadVars, engVars>>

\* _process_job_background: PROCESSING, then the engine's final status
NextStatus(status) ==
    IF status = "queued" THEN {"processing"}
    ELSE IF status = "processing" THEN {"succeeded", "failed"}
    ELSE {}

\* the background task: job.status = ..., job_store.update_job(job); it runs
\* between a request and the next one, so it does not end "right after"
UpdateJob ==
    \E job_id \in JobIds, status \in {"processing", "succeeded", "failed"} :
        LET r == update_job(_jobs, job_id, status)
        IN  /\ ~r.raised
            /\ status \in NextStatus(_jobs[StoreIndex(_jobs, job_id)].status)
            /\ _jobs' = r.jobs
            /\ UNCHANGED <<now, prev_jobs, last_op>>
            /\ UNCHANGED <<detVars, scoreVars, grpVars, lineVars, quadVars, engVars>>

\* one second passes; no request is "the next one right away" any more, and
\* the record of the last request is dropped
Tick ==
    /\ now < MaxTime
    /\ now' = now + 1
    /\ last_op' = << >>
    /\ prev_jobs' = << >>
    /\ UNCHANGED _jobs
    /\ UNCHANGED <<detVars, scoreVars, grpVars, lineVars, quadVars, engVars>>

InitStore == DetIdle /\ ScoreIdle /\ GrpIdle /\ LineIdle /\ QuadIdle /\ EngIdle /\ StoreInit

NextStore == CreateJob \/ GetJob \/ UpdateJob \/ Tick

SpecStore == InitStore /\ [][NextStore]_vars

\* C18 as stated: create_job on a store that holds max_jobs jobs, none of
\* them past the TTL, raises ValueError and leaves the stored jobs as they
\* were; and a job that create_job removed had exceeded the TTL.
C18_RejectsWhenFull ==
    (last_op # << >> /\ last_op[1].op = "create_job") =>
        /\ (Len(prev_jobs) >= _max_jobs
              /\ \A n \in 1..Len(prev_jobs) : ~Expired(prev_jobs[n], now))
               => (last_op[1].raised /\ _jobs = prev_jobs)
        /\ \A n \in 1..Len(prev_jobs) :
              ~StoreHas(_jobs, prev_jobs[n].jobId) => Expired(prev_jobs[n], now)

\* C19: a job is retrievable right after its creation.  In the state after
\* create_job(id) returned, and through status updates of the background
\* task, get_job(id) returns a job with that jobId whose status is queued,
\* processing, succeeded or failed; and every get_job(id) that ran next
\* after create_job(id) returned such a job.
C19_RetrievableAfterCreate ==
    last_op # << >> =>
        /\ (last_op[1].op = "create_job" /\ ~last_op[1].raised) =>
              LET r == get_job(_jobs, last_op[1].id, now)
              IN  /\ r.value # << >>
                  /\ r.value[1].jobId = last_op[1].id
                  /\ r.value[1].status \in JobStatuses
                  /\ r.jobs = _jobs
        /\ (last_op[1].op = "get_job" /\ last_op[1].after_create) =>
              /\ last_op[1].result # << >>
              /\ last_op[1].result[1].jobId = last_op[1].id
              /\ last_op[1].result[1].status \in JobStatuses

\* C19 witness: get_job(id) right after create_job(id) on a store that was
\* full, with the status already changed by the background task
C19_Witness ==
    /\ last_op # << >>
    /\ last_op[1].op = "get_job" /\ last_op[1].after_create /\ last_op[1].was_full
    /\ last_op[1].result # << >>
    /\ last_op[1].result[1].status = "processing"

----------------------------------------------------------------------------
\* _cluster_regions called on its own

K_A == PlainRegion(T_YEAR, << 100, 800, 400, 820 >>)
\* same y as K_A, no x overlap with it
K_B == PlainRegion(T_YEAR, << 500, 800, 900, 820 >>)
\* overlaps K_A (100 of 400) and K_B (200 of 400)
K_C == PlainRegion(T_YEAR, << 300, 810, 700, 830 >>)
\* y1 exactly 0.02 below K_A
K_D == PlainRegion(T_YEAR, << 100, 820, 400, 840 >>)
\* y1 0.021 below K_A, 0.011 below the mean of K_A and K_D
K_E == PlainRegion(T_YEAR, << 100, 821, 400, 841 >>)
\* overlap ratio with K_A exactly 0.2 (60 of 300)
K_F == PlainRegion(T_YEAR, << 340, 800, 640, 820 >>)

ClusterPool == { K_A, K_B, K_C, K_D, K_E, K_F, R_NOBOX }

\* longest list handed to _cluster_regions
MaxClusterRegions == 4

\* the call _cluster_regions(regions): sorted, before the first iteration
ClusterInit ==
    /\ residual_regions \in SeqsUpTo(ClusterPool, MaxClusterRegions)
    /\ regions_sorted = SortRegionsByYX(residual_regions)
    /\ c1 = 1 /\ clusters = << >>
    /\ dpc = "cluster"
    /\ line_regions = residual_regions /\ band_regions = residual_regions
    /\ p1 = Len(residual_regions) + 1
    /\ band_name = "BOTTOM_BAND" /\ band_bbox_norm = BOTTOM_BBOX
    /\ overlays = << >> /\ credits_block = << >> /\ detection = << >>

\* `return clusters`
ClusterReturn ==
    /\ dpc = "cluster"
    /\ c1 > Len(regions_sorted)
    /\ dpc' = "done"
    /\ UNCHANGED <<line_regions, band_name, band_bbox_norm, band_regions, p1, overlays,
                   residual_regions, regions_sorted, c1, clusters, credits_block, detection>>
    /\ UNCHANGED <<scoreVars, grpVars, lineVars, quadVars, engVars, storeVars>>

InitCluster == ClusterInit /\ ScoreIdle /\ GrpIdle /\ LineIdle /\ QuadIdle /\ EngIdle /\ StoreIdle

NextCluster == ClusterStep \/ ClusterReturn

SpecCluster == InitCluster /\ [][NextCluster]_vars

\* the joining rule in the words of C20: the mean y1 of the members is within
\* 0.02 of the region's y1, and intersection width / max(region width,
\* cluster width) exceeds 0.2
C20_Joins(cluster, region) ==
    LET n       == Len(cluster)
        sum_y   == SumSeq([k \in 1..n |-> cluster[k].boundingBox[2]])
        lo      == MinSeq([k \in 1..n |-> cluster[k].boundingBox[1]])
        hi      == MaxSeq([k \in 1..n |-> cluster[k].boundingBox[3]])
        inter   == Min2(region.boundingBox[3], hi) - Max2(region.boundingBox[1], lo)
        widest  == Max2(region.boundingBox[3] - region.boundingBox[1], hi - lo)
    IN  /\ n * region.boundingBox[2] - sum_y <= 20 * n
        /\ sum_y - n * region.boundingBox[2] <= 20 * n
        /\ 10 * inter > 2 * widest

\* one region of the pass: the first cluster in creation order that it joins,
\* or a new cluster
C20_Place(cls, region) ==
    LET joinable == { n \in 1..Len(cls) : C20_Joins(cls[n], region) }
    IN  IF Len(region.boundingBox) < 4 THEN cls
        ELSE IF joinable = {} THEN cls \o << << region >> >>
        ELSE LET first == CHOOSE n \in joinable : \A m \in joinable : n <= m
             IN  [n \in 1..Len(cls) |->
                    IF n = first THEN cls[n] \o << region >> ELSE cls[n]]

RECURSIVE C20_Pass(_, _)
C20_Pass(cls, rest) ==
    IF rest = << >> THEN cls
    ELSE C20_Pass(C20_Place(cls, Head(rest)), Tail(rest))

\* number of places of the list of lists cls that hold the region r
C20_Places(cls, r) ==
    Cardinality({ <<n, m>> \in (1..Len(cls)) \X (1..MaxClusterRegions + 1) :
                    m <= Len(cls[n]) /\ cls[n][m] = r })

C20_Count(s, r) == Cardinality({ k \in 1..Len(s) : s[k] = r })

\* C20: _cluster_regions is one greedy pass in ascending (y1, x1) order.  At
\* every point of the pass the clusters are what the joining rule of the
\* claim gives for the regions taken so far, in the order taken; the regions
\* with a 4-value bbox are taken in ascending (y1, x1) order and are all the
\* regions handed in; no cluster is empty; each region with a 4-value bbox
\* taken so far is in exactly one place of exactly one cluster, and a region
\* without one is in none.
C20_GreedySinglePass ==
    dpc \in {"cluster", "done"} =>
        LET taken == SubSeq(regions_sorted, 1, c1 - 1)
        IN  /\ clusters = C20_Pass(<< >>, taken)
            /\ \A r \in ClusterPool :
                  C20_Count(regions_sorted, r) = C20_Count(residual_regions, r)
            /\ \A i, j \in 1..Len(regions_sorted) :
                  (i < j /\ Len(regions_sorted[i].boundingBox) >= 4
                         /\ Len(regions_sorted[j].boundingBox) >= 4) =>
                     \/ regions_sorted[i].boundingBox[2] < regions_sorted[j].boundingBox[2]
                     \/ /\ regions_sorted[i].boundingBox[2] = regions_sorted[j].boundingBox[2]
                        /\ regions_sorted[i].boundingBox[1] <= regions_sorted[j].boundingBox[1]
            /\ \A n \in 1..Len(clusters) : clusters[n] # << >>
            /\ \A r \in ClusterPool :
                  C20_Places(clusters, r)
                      = IF Len(r.boundingBox) >= 4 THEN C20_Count(taken, r) ELSE 0

\* C20 witness: the pass is over; K_C could join the cluster of K_A and the
\* cluster of K_B and is in the first
C20_Witness ==
    /\ dpc = "done"
    /\ clusters = << << K_A, K_C >>, << K_B >> >>
    /\ C20_Joins(<< K_B >>, K_C)

\* the pass over K_A, K_D, K_E: K_E joins through the member mean
C20_MeanReached ==
    /\ dpc = "done"
    /\ clusters = << << K_A, K_D, K_E >> >>
    /\ ~C20_Joins(<< K_A >>, K_E)

\* the pass over K_A, K_F: a ratio of exactly 0.2 starts a new cluster
C20_RatioEdgeReached ==
    /\ dpc = "done"
    /\ clusters = << << K_A >>, << K_F >> >>

----------------------------------------------------------------------------
\* Over/under pairs of group_credits_lines

\* the three conditions in the words of C21 (centres are doubled)
C21_Qualifies(line_i, line_j) ==
    LET bi == line_i.geometry.bbox_norm
        bj == line_j.geometry.bbox_norm
        dy2 == line_j.geometry.center_norm.y - line_i.geometry.center_norm.y
        overlap == Min2(bi[3], bj[3]) - Max2(bi[1], bj[1])
        widest == Max2(bi[3] - bi[1], bj[3] - bj[1])
    IN  /\ line_i.font_height_norm < line_j.font_height_norm
        /\ dy2 <= 24 /\ -dy2 <= 24
        /\ 100 * overlap >= 65 * widest

\* the pair after (i, j) in lexicographic order among n lines
C21_NextPair(i, j, n) == IF j < n THEN << i, j + 1 >> ELSE << i + 1, i + 2 >>

\* the pairs accepted from (i, j) on, given the lines consumed so far
RECURSIVE C21_Accepted(_, _, _, _)
C21_Accepted(cls, i, j, consumed) ==
    IF i >= Len(cls) THEN << >>
    ELSE LET nxt == C21_NextPair(i, j, Len(cls))
         IN  IF C21_Qualifies(cls[i], cls[j]) /\ i \notin consumed /\ j \notin consumed
             THEN << << i, j >> >> \o C21_Accepted(cls, nxt[1], nxt[2], consumed \cup {i, j})
             ELSE C21_Accepted(cls, nxt[1], nxt[2], consumed)

\* the 2-line groups of the output, in order
C21_TwoLineGroups == SelectSeq(groups, LAMBDA g : Len(g.lines) = 2)

\* C21: over/under pairs are accepted greedily in lexicographic (i, j)
\* order.  When group_credits_lines has returned, its 2-line groups are, in
\* order, the pairs (i, j), i < j, that qualify and have neither line
\* consumed by a pair accepted earlier in that order; so every 2-line group
\* meets the three conditions, its first line being the smaller-font one.
C21_GreedyPairs ==
    gpc = "done" =>
        LET accepted == C21_Accepted(credit_lines, 1, 2, {})
        IN  /\ Len(C21_TwoLineGroups) = Len(accepted)
            /\ \A k \in 1..Len(accepted) :
                  C21_TwoLineGroups[k].lines
                      = << credit_lines[accepted[k][1]], credit_lines[accepted[k][2]] >>
            /\ \A k \in 1..Len(C21_TwoLineGroups) :
                  /\ C21_Qualifies(C21_TwoLineGroups[k].lines[1], C21_TwoLineGroups[k].lines[2])
                  /\ C21_TwoLineGroups[k].lines[1].font_height_norm
                         < C21_TwoLineGroups[k].lines[2].font_height_norm

\* C21 witness: three lines, (1, 2) does not qualify, (1, 3) was accepted and
\* (2, 3), which qualifies too, was not, line 3 being consumed
C21_Witness ==
    /\ gpc = "done"
    /\ Len(credit_lines) = 3
    /\ ~C21_Qualifies(credit_lines[1], credit_lines[2])
    /\ C21_Qualifies(credit_lines[2], credit_lines[3])
    /\ Len(C21_TwoLineGroups) = 1
    /\ C21_TwoLineGroups[1].lines = << credit_lines[1], credit_lines[3] >>

----------------------------------------------------------------------------
\* Dominant angle and paragraphs of the line reconstructor

\* twice the median in the standard sense (statistics.median)
C22_Median2(xs) ==
    LET s == SortedInts(xs)
        n == Len(xs)
    IN  IF n % 2 = 1 THEN 2 * s[(n + 1) \div 2] ELSE s[n \div 2] + s[(n \div 2) + 1]

\* the angles that deviate by at most 45 degrees from the median m2 / 2
C22_Kept(angles, m2) ==
    SelectSeq(angles, LAMBDA a : 2 * a - m2 <= 90 /\ m2 - 2 * a <= 90)

\* twice the dominant angle as C22 states it
C22_Dominant2(angles) ==
    LET m2 == C22_Median2(angles)
    IN  IF C22_Kept(angles, m2) # << >> THEN C22_Median2(C22_Kept(angles, m2)) ELSE m2

\* C22 as stated: the dominant angle of the paragraph being processed is the
\* standard median of the word angles within 45 degrees of the standard
\* median of all the paragraph's word angles, or that unfiltered median
\* when no angle is within 45 degrees of it.
C22_DominantIsMedian ==
    (lpc = "cluster") =>
        2 * DominantAngle(paragraphs[para])
            = C22_Dominant2([n \in 1..Len(paragraphs[para]) |->
                                paragraphs[para][n].angle_deg])


RECURSIVE C23_Flatten(_)
C23_Flatten(ps) == IF ps = << >> THEN << >> ELSE ps[1] \o C23_Flatten(Tail(ps))

C23_Count(s, w) == Cardinality({ n \in 1..Len(s) : s[n] = w })

\* C23: paragraph segmentation is one sweep over the words sorted by
\* (y1, x1).  Once the words are segmented, the paragraphs, one after the
\* other, are the words in ascending (y1, x1) order, each word as often as it
\* was handed in; no paragraph is empty; two words adjacent in that order are
\* in the same paragraph exactly when their y1 differ by at most 0.05, so the
\* first word of a later paragraph is more than 0.05 below the last word of
\* the paragraph before it.
C23_ParagraphSweep ==
    (lpc \in {"para", "cluster", "done"} /\ words # << >>) =>
        LET flat == C23_Flatten(paragraphs)
        IN  /\ Len(flat) = Len(words)
            /\ \A w \in WordPool : C23_Count(flat, w) = C23_Count(words, w)
            /\ \A n \in 1..(Len(flat) - 1) :
                  \/ flat[n].y1 < flat[n + 1].y1
                  \/ flat[n].y1 = flat[n + 1].y1 /\ flat[n].x1 <= flat[n + 1].x1
            /\ \A p \in 1..Len(paragraphs) :
                  /\ paragraphs[p] # << >>
                  /\ \A n \in 1..(Len(paragraphs[p]) - 1) :
                        paragraphs[p][n + 1].y1 - paragraphs[p][n].y1 <= 50
            /\ \A p \in 1..(Len(paragraphs) - 1) :
                  paragraphs[p + 1][1].y1 - paragraphs[p][Len(paragraphs[p])].y1 > 50

\* C23 witness: three words in two paragraphs; the second paragraph holds
\* two words whose y1 differ by exactly 0.05
C23_Witness ==
    /\ lpc = "done"
    /\ Len(paragraphs) = 2
    /\ Len(paragraphs[1]) = 1 /\ Len(paragraphs[2]) = 2
    /\ paragraphs[2][2].y1 - paragraphs[2][1].y1 = 50


\* the space-separated word texts of all the line regions, in order
RECURSIVE C24_Texts(_)
C24_Texts(regions) ==
    IF regions = << >> THEN << >>
    ELSE StrSplit(regions[1].text) \o C24_Texts(Tail(regions))

\* number of places of the list of lines ls that hold the word w
C24_Places(ls, w) ==
    Cardinality({ <<n, m>> \in (1..Len(ls)) \X (1..MaxWords + 1) :
                    m <= Len(ls[n]) /\ ls[n][m] = w })

\* C24: the line reconstructor conserves words.  While a paragraph is
\* clustered, each of its words taken so far is in exactly one place of one
\* line, and a fully clustered paragraph of one word is one line holding
\* that word; when the reconstructor has returned, the space-separated word
\* texts of all output lines are as many as the input words, each input
\* word's text as often as the word was handed in; empty input gives empty
\* output.
C24_WordsConserved ==
    /\ lpc = "cluster" =>
          /\ \A w \in WordPool :
                C24_Places(lines, w)
                    = Cardinality({ k \in 1..(lw - 1) : para_sorted[k] = w })
          /\ (lw > Len(para_sorted) /\ Len(paragraphs[para]) = 1) =>
                lines = << paragraphs[para] >>
    /\ lpc = "done" =>
          /\ words = << >> => all_line_regions = << >>
          /\ Len(C24_Texts(all_line_regions)) = Len(words)
          /\ \A w \in WordPool :
                Cardinality({ k \in 1..Len(C24_Texts(all_line_regions)) :
                                C24_Texts(all_line_regions)[k] = w.text })
                    = Cardinality({ k \in 1..Len(words) : words[k] = w })

\* C24 witness: three input words came out as two lines, one of two words
\* and one of a single word that was a paragraph of its own
C24_Witness ==
    /\ lpc = "done"
    /\ Len(words) = 3
    /\ Len(paragraphs) = 2 /\ Len(paragraphs[2]) = 1
    /\ Len(all_line_regions) = 2
    /\ Len(StrSplit(all_line_regions[1].text)) = 2
    /\ all_line_regions[2].text = paragraphs[2][1].text


----------------------------------------------------------------------------
\* C25: the stages of detect_credits_band run once each, in the order band
\* selection, overlay extraction (Pass 1), clustering and scoring (Pass 2).
\* Nothing of a later stage exists before the earlier stage has finished;
\* an empty band returns None before Pass 1; Pass 2 runs only when Pass 1
\* left a residual region; and when every band region became an overlay the
\* call still returns a detection with the band name, all the overlays,
\* credits_block None and confidence 0.0.
C25_StagesInOrder ==
    /\ dpc = "select" =>
          /\ p1 = 0 /\ c1 = 0
          /\ overlays = << >> /\ residual_regions = << >>
          /\ clusters = << >> /\ detection = << >>
    /\ dpc = "pass1" =>
          /\ band_regions # << >>
          /\ p1 \in 1..(Len(band_regions) + 1)
          /\ Len(overlays) + Len(residual_regions) = p1 - 1
          /\ c1 = 0 /\ clusters = << >> /\ detection = << >>
    /\ dpc = "cluster" =>
          /\ p1 = Len(band_regions) + 1
          /\ Len(overlays) + Len(residual_regions) = Len(band_regions)
          /\ residual_regions # << >>
          /\ c1 \in 1..(Len(regions_sorted) + 1)
          /\ detection = << >>
    /\ dpc = "done" =>
          IF band_regions = << >>
          THEN /\ detection = << >>
               /\ p1 = 0 /\ c1 = 0
               /\ overlays = << >> /\ clusters = << >>
          ELSE /\ p1 = Len(band_regions) + 1
               /\ Len(overlays) + Len(residual_regions) = Len(band_regions)
               /\ detection # << >>
               /\ detection[1].band_name = band_name
               /\ band_name \in {"BOTTOM_BAND", "TOP_LITE_BAND"}
               /\ detection[1].overlays = overlays
               /\ IF residual_regions = << >>
                  THEN /\ c1 = 0 /\ clusters = << >>
                       /\ detection[1].credits_block = << >>
                       /\ detection[1].confidence.num = 0
                  ELSE c1 = Len(regions_sorted) + 1

\* a non-empty band whose regions all became overlays has been returned
C25_Witness ==
    /\ dpc = "done"
    /\ band_regions # << >>
    /\ Len(overlays) = Len(band_regions)
    /\ residual_regions = << >>
    /\ detection # << >>
    /\ detection[1].overlays = overlays
    /\ detection[1].credits_block = << >>

\* Pass 2 has run to its end on a residual left by Pass 1
C25_Pass2Reached ==
    /\ dpc = "done"
    /\ residual_regions # << >>
    /\ overlays # << >>
    /\ c1 = Len(regions_sorted) + 1


----------------------------------------------------------------------------
\* C26: LiveLocalizationEngine.run always returns a job in a terminal
\* status.  Every exception of the run (image load, OCR, translation,
\* inpainting, packaging) ends in a return with status FAILED; the returned
\* job is SUCCEEDED or FAILED; SUCCEEDED comes with result set, error unset
\* and progress at PACKAGING 100; FAILED comes with error set and result
\* unset.  Before the return the job is not in a terminal status.
C26_ReturnsTerminalJob ==
    /\ epc \notin {"idle", "returned"} => job.status \in {"queued", "processing"}
    /\ raised \cap NonCreditsSteps # {} => epc = "returned" /\ job.status = "failed"
    /\ epc = "returned" =>
          /\ job.status \in {"succeeded", "failed"}
          /\ job.status = "succeeded" =>
                /\ job.result # << >>
                /\ job.error = << >>
                /\ job.progress # << >>
                /\ job.progress[1].stage = "packaging"
                /\ job.progress[1].percent = 100
                /\ raised \cap NonCreditsSteps = {}
          /\ job.status = "failed" =>
                /\ job.error # << >>
                /\ job.result = << >>
                /\ raised \cap NonCreditsSteps # {}

\* a run that failed in its last stage has returned
C26_Witness ==
    /\ epc = "returned"
    /\ job.status = "failed"
    /\ "packaging" \in raised
    /\ job.error = << "INTERNAL_ERROR" >>
    /\ job.result = << >>

\* a run has returned a succeeded job after a credits-stage exception
C26_SucceededReached ==
    /\ epc = "returned"
    /\ job.status = "succeeded"
    /\ raised \cap CreditsSteps # {}
    /\ job.result # << >>


----------------------------------------------------------------------------
\* C27: no provider call is retried within one run.

\* a credits block was accepted by the credits stage
BlockAccepted == credits_detection # << >> /\ credits_detection[1].credits_block # << >>

\* the OCR stage is over
AfterOcrStage == epc \in {"credits", "crop_ocr", "translation", "inpaint", "packaging", "returned"}

\* the credits stage is over
AfterCreditsStage == epc \in {"translation", "inpaint", "packaging", "returned"}

\* C27 as stated: the OCR client is called exactly once for the full image
\* and at most once more for the credits crop, only when a credits block was
\* accepted; the translation and the inpainting client at most once each;
\* with no accepted block the OCR client is called exactly once.
C27_NoRetry_AsStated ==
    /\ calls.translation <= 1 /\ calls.inpaint <= 1
    /\ AfterOcrStage =>
          /\ calls.ocr \in {1, 2}
          /\ calls.ocr = 2 => BlockAccepted
    /\ (epc = "returned" /\ ~BlockAccepted) => calls.ocr = 1

\* C27, amended: the full image is sent to the OCR client exactly once,
\* unless SKIP_OCR is set or the image could not be loaded, and then not at
\* all; the crop is sent once exactly when a credits block was accepted; the
\* translation client, the inpainting client and detect_credits_band are
\* called at most once each.
C27_NoRetry ==
    /\ calls.translation <= 1 /\ calls.inpaint <= 1 /\ calls.detect <= 1
    /\ epc = "credits" => calls.ocr = (IF settings.SKIP_OCR THEN 0 ELSE 1)
    /\ epc = "crop_ocr" => calls.ocr = 1 /\ BlockAccepted
    /\ AfterCreditsStage =>
          calls.ocr = (IF settings.SKIP_OCR \/ "image" \in raised THEN 0 ELSE 1)
                      + (IF BlockAccepted THEN 1 ELSE 0)
    /\ BlockAccepted => ~settings.SKIP_OCR /\ calls.detect = 1

\* a run with an accepted credits block has returned after two OCR calls,
\* one translation call and one inpainting call
C27_Witness ==
    /\ epc = "returned"
    /\ BlockAccepted
    /\ calls = [ocr |-> 2, detect |-> 1, translation |-> 1, inpaint |-> 1]

\* a run without SKIP_OCR and without an accepted block has returned after
\* one OCR call
C27_OnceReached ==
    /\ epc = "returned" /\ job.status = "succeeded"
    /\ ~settings.SKIP_OCR /\ ~BlockAccepted
    /\ calls.ocr = 1 /\ calls.detect = 1


----------------------------------------------------------------------------
\* C28 as stated: a job that is still QUEUED or PROCESSING is never removed
\* from the store by a create_job for another job, so that the background
\* task's next update_job for it does not raise 'not found'.
C28_RunningJobNeverEvicted ==
    (last_op # << >> /\ last_op[1].op = "create_job") =>
        \A n \in 1..Len(prev_jobs) :
            (/\ prev_jobs[n].status \in {"queued", "processing"}
             /\ prev_jobs[n].jobId # last_op[1].id)
            => /\ StoreHas(_jobs, prev_jobs[n].jobId)
               /\ \A status \in NextStatus(prev_jobs[n].status) :
                     ~update_job(_jobs, prev_jobs[n].jobId, status).raised


----------------------------------------------------------------------------
\* C29: after any sequence of create_job, get_job and update_job calls the
\* store holds at most max_jobs jobs, no job id twice; get_job never returns
\* a job whose age exceeds the TTL, and a get_job that finds such a job
\* deletes it and returns None.
C29_BoundedAndFresh ==
    /\ Len(_jobs) <= _max_jobs
    /\ \A n, m \in 1..Len(_jobs) : _jobs[n].jobId = _jobs[m].jobId => n = m
    /\ \A job_id \in JobIds :
          LET r == get_job(_jobs, job_id, now)
          IN  /\ r.value # << >> =>
                    /\ r.value[1].jobId = job_id
                    /\ (now - r.value[1].createdAt) * SecondsPerTick <= _ttl_seconds
                    /\ r.jobs = _jobs
              /\ (StoreHas(_jobs, job_id)
                    /\ (now - _jobs[StoreIndex(_jobs, job_id)].createdAt) * SecondsPerTick
                           > _ttl_seconds)
                 => /\ r.value = << >>
                    /\ ~StoreHas(r.jobs, job_id)
                    /\ Len(r.jobs) = Len(_jobs) - 1

\* a full store holds a job past the TTL, which get_job deletes, next to a
\* job within the TTL, which get_job returns
C29_Witness ==
    /\ Len(_jobs) = _max_jobs
    /\ \E n, m \in 1..Len(_jobs) :
          /\ (now - _jobs[n].createdAt) * SecondsPerTick > _ttl_seconds
          /\ get_job(_jobs, _jobs[n].jobId, now).value = << >>
          /\ (now - _jobs[m].createdAt) * SecondsPerTick <= _ttl_seconds
          /\ get_job(_jobs, _jobs[m].jobId, now).value = << _jobs[m] >>


----------------------------------------------------------------------------
\* C30: what Pass 1 leaves as residual

\* the properties of a residual region of a selected band
C30_Residual(r) ==
    LET geometry   == geometry_from_detected_text(r)
        text_upper == StrUpper(r.text)
    IN  /\ geometry # << >>
        /\ ~Contains(<<"@">>, r.text)
        /\ \A t \in 1..Len(URL_TOKENS) : ~Contains(URL_TOKENS[t], text_upper)
        /\ ~Contains(<<"R">>, text_upper)
        /\ ~Contains(<<"G">>, text_upper)
        /\ area_from_bbox(geometry[1].bbox_norm) >= 2000
        /\ ~(/\ height_from_bbox(geometry[1].bbox_norm) < 30
             /\ AspectRatioGreater(geometry[1].bbox_norm, 7, 2))

C30_HasCreditsKeyword(r) == ContainsAny(CREDITS_KEYWORDS, StrUpper(r.text))

\* C30: every region that Pass 1 keeps as residual from a selected band has
\* geometry, a text without '@', an uppercased text without URL token and
\* without the letters 'R' and 'G', a bbox area of at least 0.0020, and is
\* not both lower than 0.030 and wider than 3.5 in aspect ratio; no line with
\* 'directed by' or 'produced by' is residual or handed to the clustering.
C30_ResidualIsPlain ==
    dpc \in {"pass1", "cluster", "done"} =>
        /\ \A n \in 1..Len(residual_regions) :
              /\ C30_Residual(residual_regions[n])
              /\ ~C30_HasCreditsKeyword(residual_regions[n])
        /\ \A n \in 1..Len(regions_sorted) :
              /\ C30_Residual(regions_sorted[n])
              /\ ~C30_HasCreditsKeyword(regions_sorted[n])

\* a band with a 'Directed by' line of large box and a plain line has gone
\* through Pass 1 and Pass 2: the first is an overlay, the second residual
C30_Witness ==
    /\ dpc = "done"
    /\ \E n \in 1..Len(band_regions) :
          /\ C30_HasCreditsKeyword(band_regions[n])
          /\ area_from_bbox(band_regions[n].boundingBox) >= 2000
    /\ \E k \in 1..Len(overlays) :
          /\ overlays[k].element_type = "RATING_BADGE"
          /\ overlays[k].text # << >>
          /\ ContainsAny(CREDITS_KEYWORDS, StrUpper(overlays[k].text[1]))
    /\ residual_regions # << >>
    /\ Len(regions_sorted) = Len(residual_regions)

====
